---- MODULE Spec2Model ----
(***************************************************************************)
(* State-machine model of the PDF-to-EPUB converter: the App component     *)
(* (src/App.tsx: session store, file selection, handleConvert,             *)
(* handleStartOver) and the conversation client                            *)
(* (src/services/geminiService.ts: sendMessageWithRetry and its callers).  *)
(***************************************************************************)
EXTENDS Integers, Sequences, FiniteSets, TLC

\* ------------------------------------------------------------ constants

\* src/App.tsx:12
CHUNK_SIZE == 5
\* src/services/geminiService.ts:45
MAX_RETRIES == 7
\* src/services/geminiService.ts:46
INITIAL_DELAY_MS == 3000
\* src/services/geminiService.ts:74, Math.floor(Math.random() * 1000)
JITTER_RANGE == 1000

\* ------------------------------------------------------------ bounds

\* Largest document of the orchestration model, in pages.
MaxPages == 6
\* Cap on the length of the accumulated image array.
MaxImages == 3
\* Largest page count and chunk size of the chunk-slicing specification.
MaxSlicePages == 12
MaxSliceChunk == 6
\* Largest number of img elements and of table-of-contents links in the markup
\* given to generateEpub.
MaxImgs == 3
MaxLinks == 2

\* Most paintImageXObject operators on one page, in the documents whose
\* extraction is checked on its own.
MaxOnPage == 2

\* Largest width and height of an image whose pixels are normalised.
MaxSide == 2

\* ------------------------------------------------------------ helpers

Min(a, b) == IF a < b THEN a ELSE b

\* ------------------------------------------------------------ chunk slicing

\* Math.ceil(numPages / CHUNK_SIZE): the quotient, plus one when the division
\* leaves a remainder.
NumChunks(P, C) == IF P % C = 0 THEN P \div C ELSE (P \div C) + 1

StartPage(i, C) == i * C + 1

\* Mutant of EndPage: the last chunk is not clamped to the page count.
EndPage_NoClamp(i, C, P) == (i + 1) * C

EndPage(i, C, P) == Min((i + 1) * C, P)

\* ------------------------------------------------------------ errors

\* The substrings the code looks for in the lower-cased error string.
QuotaPatterns == {"daily limit", "quota exceeded"}

RateLimitPatterns == {"429", "resource_exhausted"}

TransientPatterns == {"500", "503", "unknown", "rpc failed"}

\* An error value: str is the set of patterns that occur in
\* (typeof err === 'object' ? JSON.stringify(err) : String(err)).toLowerCase(),
\* msg the set that occur in err.message, isError whether it is an Error
\* instance, id the number of the sendMessage call that raised it (0 when it
\* was not raised by sendMessage).
Err(str, msg, isErr, id) == [str |-> str, msg |-> msg, isError |-> isErr, id |-> id]

NoErr == Err({}, {}, FALSE, -1)

ErrorString(err) == err.str

IsQuotaError(err) == ErrorString(err) \cap QuotaPatterns # {}

IsRetriableError(err) ==
    ErrorString(err) \cap (RateLimitPatterns \cup TransientPatterns) # {}

\* The errors chat.sendMessage is made to raise: the pattern sets of their
\* error strings.
ServiceErrorStrings ==
    { {"daily limit"}, {"quota exceeded", "429"}, {"daily limit", "503"},
      {"429"}, {"resource_exhausted"}, {"500"}, {"503"}, {"unknown"},
      {"rpc failed"}, {} }

\* The smaller choice used when the whole application runs.
RunErrorStrings == { {"quota exceeded", "429"}, {"429"}, {"503"}, {} }

\* The errors pdf.js raises while loading the document or a page.
ExtractionErrorStrings == { {}, {"unknown"} }

\* The jitter values the random source is made to return.
Jitters == {0, 1, JITTER_RANGE - 1}

RunJitters == {0}

\* ------------------------------------------------------------ state

VARIABLES
    \* the document under conversion: pdf.numPages, and the number of
    \* paintImageXObject operators on each page
    numPages, imagesOn,
    \* localStorage entry under the document's session key
    store,
    \* React state of App
    file, isLoading, error, epubBlob, resumableSession, isRetriableError,
    \* the kind of entry the catch block of the effect on [file] removed when
    \* the effect last ran ("none" when the catch block did not run), and the
    \* chunk index at which the latest run of the conversion under way entered
    \* the chunk loop (0 again once an archive is made)
    discarded, prevStart,
    \* handleConvert: position and locals, and the images console.warn
    \* reported while the current chunk was extracted
    pc, shouldResume, forceNew, resumeFromChunk, i, pageNum, chat, allImages,
    chunkText, warned, chunkImages, caught, generatedHtml,
    \* sendMessageWithRetry: position and locals
    rpc, caller, message, attempt, delay, lastErr, thrown, response,
    \* observations (call and argument capture)
    writes, calls, waits, sent, declined, startStore, afterFailure,
    \* chunk slicing on its own
    sP, sC, si, sCovered, sOverlap,
    \* generateEpub: arguments, position and locals, and the JSZip in use
    htmlContent, title, createFolders, epc, doc, bookTitle, jszip, imgIdx,
    imageCounter, imageManifestItems, blob,
    \* the pixel normalisation of one image: img.width, img.height, img.data,
    \* imageData.data, the position in it, and the loop counters l and k
    imgWidth, imgHeight, imgData, imageData, npc, pl, pk

docVars == <<numPages, imagesOn>>

effectVars == <<discarded, prevStart>>

appVars == <<file, isLoading, error, epubBlob, resumableSession, isRetriableError>>

runVars == <<pc, shouldResume, forceNew, resumeFromChunk, i, pageNum, chat,
             allImages, chunkText, warned, chunkImages, caught, generatedHtml>>

retryVars == <<rpc, caller, message, attempt, delay, lastErr, thrown, response>>

obsVars == <<writes, calls, waits, sent, declined, startStore, afterFailure>>

sliceVars == <<sP, sC, si, sCovered, sOverlap>>

epubVars == <<htmlContent, title, createFolders, epc, doc, bookTitle, jszip, imgIdx,
              imageCounter, imageManifestItems, blob>>

pixelVars == <<imgWidth, imgHeight, imgData, imageData, npc, pl, pk>>

vars == <<docVars, store, effectVars, appVars, runVars, retryVars, obsVars, sliceVars,
          epubVars, pixelVars>>

\* ------------------------------------------------------------ values

\* No entry under the key (getItem returns null).
Absent == [kind |-> "absent"]

\* The entry is the empty string (falsy, like null).
EmptyText == [kind |-> "empty"]

\* The entry is a non-empty text that JSON.parse rejects.
Unparsable == [kind |-> "text"]

\* The entry is the text "null": JSON.parse gives null, and reading a
\* property of null throws.
JsonNull == [kind |-> "json_null"]

\* The entry parses to an object that has, of the two fields the effect
\* reads, only those in fields.
PartialObject(fields) == [kind |-> "object", fields |-> fields]

SessionFields == {"currentChunk", "chatHistory"}

\* What the store can hold under the document's key when the page is opened
\* without the application having written it: nothing, or an entry that is no
\* session.
StoredAtStart ==
    {Absent, EmptyText, Unparsable, JsonNull}
        \cup {PartialObject(f) : f \in (SUBSET SessionFields) \ {SessionFields}}

\* The value JSON.parse gives for an entry written by handleConvert.
Session(cur, n, hist, imgs) ==
    [kind |-> "session", currentChunk |-> cur, numPages |-> n,
     chatHistory |-> hist, allImages |-> imgs]

\* resumableSession = null
Null == [kind |-> "null"]

NoError == [kind |-> "", detail |-> {}]

NoMessage == [type |-> "none"]

\* The turn sendPdfChunkToChat builds: the text part names the page range and
\* carries the chunk text, the image parts follow.
ChunkMessage(text, images, startPage, endPage) ==
    [type |-> "chunk", startPage |-> startPage, endPage |-> endPage,
     text |-> text, images |-> images]

\* The turn finishEpubConversionChat builds.
FinalMessage == [type |-> "final"]

\* The page counts the application is run on: a single page, one full chunk,
\* and the largest document.
PageCounts == {1, CHUNK_SIZE, MaxPages}

\* The documents the application is run on carry their images on the first
\* page of the second chunk.
Layout(n) == [p \in 1..n |-> IF p = CHUNK_SIZE + 1 THEN 2 ELSE 0]

\* The number of paintImageXObject operators on a page of the document.
ImagesOnPage(p) == imagesOn[p]

\* Truthiness of a number and of an array in JavaScript.
TruthyNumber(n) == n # 0

TruthyArray(a) == TRUE

\* Truthiness of the string getItem returns (null when there is no entry).
TruthyEntry(entry) == entry.kind \notin {"absent", "empty"}

\* ------------------------------------------------------------ initial state

RunInit ==
    /\ pc = "idle"
    /\ shouldResume = FALSE
    /\ forceNew = FALSE
    /\ resumeFromChunk = 0
    /\ i = 0
    /\ pageNum = 0
    /\ chat = <<>>
    /\ allImages = <<>>
    /\ chunkText = <<>>
    /\ warned = <<>>
    /\ chunkImages = <<>>
    /\ caught = NoErr
    /\ generatedHtml = "none"

RetryInit ==
    /\ rpc = "idle"
    /\ caller = "none"
    /\ message = NoMessage
    /\ attempt = 0
    /\ delay = INITIAL_DELAY_MS
    /\ lastErr = NoErr
    /\ thrown = NoErr
    /\ response = "none"

ObsInit ==
    /\ writes = <<>>
    /\ calls = 0
    /\ waits = <<>>
    /\ sent = <<>>
    /\ declined = FALSE
    /\ startStore = Absent
    /\ afterFailure = FALSE

SliceIdle ==
    /\ sP = 0
    /\ sC = 0
    /\ si = 0
    /\ sCovered = {}
    /\ sOverlap = FALSE

\* generateEpub is not running.
NoMarkup == [title |-> "", imgs |-> <<>>, links |-> <<>>]

NoDoc == [title |-> "", imgs |-> <<>>, links |-> <<>>, linked |-> FALSE]

EpubIdle ==
    /\ htmlContent = NoMarkup
    /\ title = ""
    /\ createFolders = FALSE
    /\ epc = "idle"
    /\ doc = NoDoc
    /\ bookTitle = ""
    /\ jszip = <<>>
    /\ imgIdx = 0
    /\ imageCounter = 0
    /\ imageManifestItems = <<>>
    /\ blob = <<>>

\* No image is being normalised.
PixelIdle ==
    /\ imgWidth = 0
    /\ imgHeight = 0
    /\ imgData = <<>>
    /\ imageData = <<>>
    /\ npc = "idle"
    /\ pl = 0
    /\ pk = 0

AppInit ==
    /\ file = "none"
    /\ isLoading = FALSE
    /\ error = NoError
    /\ epubBlob = FALSE
    /\ resumableSession = Null
    /\ isRetriableError = FALSE

Init ==
    /\ numPages \in PageCounts
    /\ imagesOn = Layout(numPages)
    /\ store \in StoredAtStart
    /\ discarded = "none"
    /\ prevStart = 0
    /\ AppInit
    /\ RunInit
    /\ RetryInit
    /\ ObsInit
    /\ SliceIdle
    /\ EpubIdle
    /\ PixelIdle

\* ------------------------------------------------------------ session store

\* JSON.parse(savedSession) followed by the test
\* parsed.currentChunk && parsed.chatHistory: TRUE when the entry parses and
\* both values are truthy, FALSE when anything throws or a value is falsy.
ValidSession(entry) ==
    CASE entry.kind = "session" ->
            TruthyNumber(entry.currentChunk) /\ TruthyArray(entry.chatHistory)
      [] entry.kind = "object" -> SessionFields \subseteq entry.fields
      [] OTHER -> FALSE

\* Mutant of LoadSession: an entry that is no valid session is not offered
\* but stays in the store.
LoadSession_KeepsEntry(entry) ==
    IF ~TruthyEntry(entry)
    THEN <<entry, Null, "none">>
    ELSE IF ValidSession(entry)
         THEN <<entry, entry, "none">>
         ELSE <<entry, Null, entry.kind>>

\* The effect on [file]: read the entry under the file's key; a falsy result
\* (no entry, or the empty string) leaves the store alone; otherwise keep the
\* entry as the resumable session when it parses and both fields are truthy,
\* and remove it in the catch block when not.  The result is
\* <<entry left in the store, resumableSession, kind of entry removed>>.
LoadSession(entry) ==
    IF ~TruthyEntry(entry)
    THEN <<entry, Null, "none">>
    ELSE IF ValidSession(entry)
         THEN <<entry, entry, "none">>
         ELSE <<Absent, Null, entry.kind>>

\* ------------------------------------------------------------ App: events

ResetRun ==
    /\ pc' = "idle"
    /\ shouldResume' = FALSE
    /\ forceNew' = FALSE
    /\ resumeFromChunk' = 0
    /\ i' = 0
    /\ pageNum' = 0
    /\ chat' = <<>>
    /\ allImages' = <<>>
    /\ chunkText' = <<>>
    /\ warned' = <<>>
    /\ chunkImages' = <<>>
    /\ caught' = NoErr
    /\ generatedHtml' = "none"

ResetRetry ==
    /\ rpc' = "idle"
    /\ caller' = "none"
    /\ message' = NoMessage
    /\ attempt' = 0
    /\ delay' = INITIAL_DELAY_MS
    /\ lastErr' = NoErr
    /\ thrown' = NoErr
    /\ response' = "none"

ResetRunObs ==
    /\ writes' = <<>>
    /\ calls' = 0
    /\ waits' = <<>>
    /\ sent' = <<>>
    /\ declined' = FALSE
    /\ startStore' = Absent
    /\ afterFailure' = FALSE

\* handleFileSelect followed by the effect on [file].  The file input and the
\* drop zone are disabled while isLoading.
SelectFile ==
    /\ ~isLoading
    /\ file' = "doc"
    /\ epubBlob' = FALSE
    /\ error' = NoError
    /\ isRetriableError' = FALSE
    /\ store' = LoadSession(store)[1]
    /\ resumableSession' = LoadSession(store)[2]
    /\ discarded' = LoadSession(store)[3]
    /\ UNCHANGED <<isLoading, docVars, prevStart, runVars, retryVars, obsVars, sliceVars,
                   epubVars, pixelVars>>

\* handleConvert up to the first await: the resume decision, the confirmation
\* dialog (answer confirmAns), and the state resets.
BeginConvert(force, confirmAns) ==
    LET wants == (resumableSession # Null) /\ ~force
        asked == wants /\ ~isRetriableError
    IN  /\ file # "none"
        /\ forceNew' = force
        /\ shouldResume' = (wants /\ (asked => confirmAns))
        /\ declined' = (asked /\ ~confirmAns)
        /\ isLoading' = TRUE
        /\ error' = NoError
        /\ isRetriableError' = FALSE
        /\ epubBlob' = FALSE
        /\ pc' = "load"
        /\ startStore' = store
        /\ afterFailure' = (error # NoError)
        /\ UNCHANGED <<file, docVars, effectVars, resumeFromChunk, i, pageNum, chat, allImages,
                       chunkText, warned, chunkImages, caught, generatedHtml,
                       retryVars, writes, calls, waits, sent, sliceVars, epubVars, pixelVars>>

\* Mutant of Convert: the button stays enabled while a run is in progress.
Convert_WhileLoading ==
    /\ \E confirmAns \in BOOLEAN :
          /\ ((resumableSession = Null \/ isRetriableError) => confirmAns)
          /\ BeginConvert(FALSE, confirmAns)
    /\ UNCHANGED <<store, resumableSession>>

\* The Convert / Resume button, or the Retry button shown in its place while
\* isRetriableError: both call handleConvert().
Convert ==
    /\ ~isLoading
    /\ \E confirmAns \in BOOLEAN :
          /\ ((resumableSession = Null \/ isRetriableError) => confirmAns)
          /\ BeginConvert(FALSE, confirmAns)
    /\ UNCHANGED <<store, resumableSession>>

\* The Start Over button (rendered only beside the Convert button, with a
\* resumable session): handleStartOver, then handleConvert(true).
StartOver ==
    /\ ~isLoading
    /\ ~isRetriableError
    /\ resumableSession # Null
    /\ store' = Absent
    /\ resumableSession' = Null
    /\ BeginConvert(TRUE, TRUE)

\* The page is reloaded or closed and opened again: the component state is
\* rebuilt, a run in progress is abandoned, localStorage stays.
Reload ==
    /\ file' = "none"
    /\ isLoading' = FALSE
    /\ error' = NoError
    /\ epubBlob' = FALSE
    /\ resumableSession' = Null
    /\ isRetriableError' = FALSE
    /\ ResetRun
    /\ ResetRetry
    /\ ResetRunObs
    /\ discarded' = "none"
    /\ UNCHANGED <<docVars, store, prevStart, sliceVars, epubVars, pixelVars>>

\* ------------------------------------------------------------ handleConvert

\* allImages is the array object of resumableSession when the run resumed
\* (allImages = resumableSession.allImages): a push shows in both.
Aliased == shouldResume /\ resumableSession # Null

\* Mutant of LoopHead: the chunk loop stops one index early.
LoopHead_StopsEarly(next) ==
    /\ i' = next
    /\ writes' = <<>>
    /\ chunkText' = <<>>
    /\ warned' = <<>>
    /\ chunkImages' = <<>>
    /\ IF next < NumChunks(numPages, CHUNK_SIZE) - 1
       THEN /\ pc' = "page"
            /\ pageNum' = StartPage(next, CHUNK_SIZE)
       ELSE /\ pc' = "finish"
            /\ pageNum' = 0

\* The head of the chunk loop for index next: enter the body at the chunk's
\* first page, or leave the loop.
LoopHead(next) ==
    /\ i' = next
    /\ writes' = <<>>
    /\ chunkText' = <<>>
    /\ warned' = <<>>
    /\ chunkImages' = <<>>
    /\ IF next < NumChunks(numPages, CHUNK_SIZE)
       THEN /\ pc' = "page"
            /\ pageNum' = StartPage(next, CHUNK_SIZE)
       ELSE /\ pc' = "finish"
            /\ pageNum' = 0

\* Mutant of LoadPdf: a resumed run replays the session but starts the chunk
\* loop at index 0.
LoadPdf_FromZero ==
    /\ pc = "load"
    /\ IF shouldResume /\ resumableSession # Null
       THEN /\ chat' = resumableSession.chatHistory
            /\ resumeFromChunk' = 0
            /\ allImages' = resumableSession.allImages
            /\ store' = store
            /\ LoopHead(0)
       ELSE /\ store' = Absent
            /\ chat' = <<>>
            /\ resumeFromChunk' = 0
            /\ allImages' = <<>>
            /\ LoopHead(0)
    /\ prevStart' = resumeFromChunk'
    /\ UNCHANGED <<docVars, discarded, appVars, shouldResume, forceNew, caught, generatedHtml,
                   retryVars, calls, waits, sent, declined, startStore,
                   afterFailure, sliceVars, epubVars, pixelVars>>

\* Mutant of LoadPdf: a run that does not resume leaves the stored session in
\* place.
LoadPdf_KeepsStale ==
    /\ pc = "load"
    /\ IF shouldResume /\ resumableSession # Null
       THEN /\ chat' = resumableSession.chatHistory
            /\ resumeFromChunk' = resumableSession.currentChunk
            /\ allImages' = resumableSession.allImages
            /\ store' = store
            /\ LoopHead(resumableSession.currentChunk)
       ELSE /\ store' = store
            /\ chat' = <<>>
            /\ resumeFromChunk' = 0
            /\ allImages' = <<>>
            /\ LoopHead(0)
    /\ prevStart' = resumeFromChunk'
    /\ UNCHANGED <<docVars, discarded, appVars, shouldResume, forceNew, caught, generatedHtml,
                   retryVars, calls, waits, sent, declined, startStore, afterFailure,
                   sliceVars, epubVars, pixelVars>>

\* await file.arrayBuffer(), getDocument, and the choice between replaying the
\* resumable session and a fresh conversation.
LoadPdf ==
    /\ pc = "load"
    /\ IF shouldResume /\ resumableSession # Null
       THEN /\ chat' = resumableSession.chatHistory
            /\ resumeFromChunk' = resumableSession.currentChunk
            /\ allImages' = resumableSession.allImages
            /\ store' = store
            /\ LoopHead(resumableSession.currentChunk)
       ELSE /\ store' = Absent
            /\ chat' = <<>>
            /\ resumeFromChunk' = 0
            /\ allImages' = <<>>
            /\ LoopHead(0)
    /\ prevStart' = resumeFromChunk'
    /\ UNCHANGED <<docVars, discarded, appVars, shouldResume, forceNew, caught, generatedHtml,
                   retryVars, calls, waits, sent, declined, startStore, afterFailure,
                   sliceVars, epubVars, pixelVars>>

\* An error reaches the catch block of handleConvert.  The locals of the try
\* block are out of scope from here on.
Throw(err) ==
    /\ pc' = "catch"
    /\ caught' = err
    /\ shouldResume' = FALSE
    /\ forceNew' = FALSE
    /\ resumeFromChunk' = 0
    /\ i' = 0
    /\ pageNum' = 0
    /\ chat' = <<>>
    /\ allImages' = <<>>
    /\ chunkText' = <<>>
    /\ warned' = <<>>
    /\ chunkImages' = <<>>
    /\ generatedHtml' = "none"
    /\ ResetRetry
    /\ ResetRunObs
    /\ UNCHANGED <<docVars, effectVars, store, appVars, sliceVars, epubVars, pixelVars>>

\* Loading the document fails.
LoadPdfFails(e) ==
    /\ pc = "load"
    /\ Throw(Err(e, e, TRUE, 0))

PageToken(p) == [t |-> "page", n |-> p]

ImageToken(k) == [t |-> "image", n |-> k]

ImageOutcomes == {"ok", "throws", "none"}

\* Mutant of PaintImage: the placeholder is numbered by the image's position
\* in the chunk's own images.
PaintImage_ChunkIndex(st, p, j, outcome) ==
    CASE outcome = "ok" ->
            LET pushed == Append(st.all, <<p, j>>)
            IN  [st EXCEPT !.all = pushed,
                           !.chunk = Append(st.chunk, <<p, j>>),
                           !.text = Append(st.text, ImageToken(Len(st.chunk)))]
      [] outcome = "throws" -> [st EXCEPT !.warned = Append(st.warned, <<p, j>>)]
      [] OTHER -> st

\* Mutant of PaintImage: an image whose extraction throws still gets a
\* placeholder in the chunk's text.
PaintImage_PlaceholderOnThrow(st, p, j, outcome) ==
    CASE outcome = "ok" ->
            LET pushed == Append(st.all, <<p, j>>)
            IN  [st EXCEPT !.all = pushed,
                           !.chunk = Append(st.chunk, <<p, j>>),
                           !.text = Append(st.text, ImageToken(Len(pushed) - 1))]
      [] outcome = "throws" ->
            [st EXCEPT !.warned = Append(st.warned, <<p, j>>),
                       !.text = Append(st.text, ImageToken(Len(st.all)))]
      [] OTHER -> st

\* One paintImageXObject operator, image j of page p: when the object is there
\* and nothing throws, the image is pushed on both arrays and its placeholder,
\* numbered allImages.length - 1, is appended; a throw anywhere in the try
\* block comes before the pushes and is reported by console.warn; an object
\* that is not there changes nothing.
PaintImage(st, p, j, outcome) ==
    CASE outcome = "ok" ->
            LET pushed == Append(st.all, <<p, j>>)
            IN  [st EXCEPT !.all = pushed,
                           !.chunk = Append(st.chunk, <<p, j>>),
                           !.text = Append(st.text, ImageToken(Len(pushed) - 1))]
      [] outcome = "throws" -> [st EXCEPT !.warned = Append(st.warned, <<p, j>>)]
      [] OTHER -> st

RECURSIVE PaintImages(_, _, _, _)
PaintImages(st, p, j, outcomes) ==
    IF j > ImagesOnPage(p)
    THEN st
    ELSE PaintImages(PaintImage(st, p, j, outcomes[j]), p, j + 1, outcomes)

\* One page of the chunk: its text, then its images in operator order.
ExtractPage ==
    /\ pc = "page"
    /\ \E outcomes \in [1..ImagesOnPage(pageNum) -> ImageOutcomes] :
          LET st == PaintImages([all |-> allImages, chunk |-> chunkImages,
                                 text |-> Append(chunkText, PageToken(pageNum)),
                                 warned |-> warned],
                                pageNum, 1, outcomes)
          IN  /\ Len(st.all) <= MaxImages
              /\ allImages' = st.all
              /\ chunkImages' = st.chunk
              /\ chunkText' = st.text
              /\ warned' = st.warned
              /\ resumableSession' =
                    IF Aliased
                    THEN [resumableSession EXCEPT !.allImages = st.all]
                    ELSE resumableSession
    /\ IF pageNum < EndPage(i, CHUNK_SIZE, numPages)
       THEN /\ pageNum' = pageNum + 1
            /\ pc' = "page"
       ELSE /\ pageNum' = pageNum
            /\ pc' = "save_before"
    /\ UNCHANGED <<docVars, effectVars, store, file, isLoading, error, epubBlob, isRetriableError,
                   shouldResume, forceNew, resumeFromChunk, i, chat, caught,
                   generatedHtml, retryVars, obsVars, sliceVars, epubVars, pixelVars>>

\* getPage, getTextContent or getOperatorList rejects.
ExtractPageFails(e) ==
    /\ pc = "page"
    /\ Throw(Err(e, e, TRUE, 0))

\* Mutant of SaveBefore: the snapshot before the submission already counts the
\* chunk as done.
SaveBefore_CountsChunk ==
    /\ pc = "save_before"
    /\ store' = Session(i + 1, numPages, chat, allImages)
    /\ writes' = Append(writes, i + 1)
    /\ pc' = "submit"
    /\ UNCHANGED <<docVars, effectVars, appVars, shouldResume, forceNew, resumeFromChunk, i,
                   pageNum, chat, allImages, chunkText, warned, chunkImages, caught,
                   generatedHtml, retryVars, calls, waits, sent, declined,
                   startStore, afterFailure, sliceVars, epubVars, pixelVars>>

\* The snapshot written before the chunk is sent.
SaveBefore ==
    /\ pc = "save_before"
    /\ store' = Session(i, numPages, chat, allImages)
    /\ writes' = Append(writes, i)
    /\ pc' = "submit"
    /\ UNCHANGED <<docVars, effectVars, appVars, shouldResume, forceNew, resumeFromChunk, i,
                   pageNum, chat, allImages, chunkText, warned, chunkImages, caught,
                   generatedHtml, retryVars, calls, waits, sent, declined,
                   startStore, afterFailure, sliceVars, epubVars, pixelVars>>

\* Entry of sendMessageWithRetry for message msg on behalf of who.
Invoke(who, msg) ==
    /\ caller' = who
    /\ message' = msg
    /\ attempt' = 0
    /\ delay' = INITIAL_DELAY_MS
    /\ rpc' = "call"
    /\ lastErr' = NoErr
    /\ thrown' = NoErr
    /\ response' = "none"
    /\ calls' = 0
    /\ waits' = <<>>

\* sendPdfChunkToChat is called for chunk i.
SubmitChunk ==
    /\ pc = "submit"
    /\ pc' = "retry"
    /\ sent' = Append(sent, i)
    /\ Invoke("chunk", ChunkMessage(chunkText, chunkImages,
                                    StartPage(i, CHUNK_SIZE),
                                    EndPage(i, CHUNK_SIZE, numPages)))
    /\ UNCHANGED <<docVars, effectVars, store, appVars, shouldResume, forceNew, resumeFromChunk,
                   i, pageNum, chat, allImages, chunkText, warned, chunkImages, caught,
                   generatedHtml, writes, declined, startStore, afterFailure,
                   sliceVars, epubVars, pixelVars>>

\* ------------------------------------------------------------ sendMessageWithRetry

\* What the final response can be: well-formed JSON with htmlContent, JSON
\* without (or with an empty) htmlContent, or text that does not parse.
FinalResponses == {"html", "no_field", "bad_json"}

orchestratorVars == <<docVars, effectVars, store, appVars, pc, shouldResume, forceNew,
                      resumeFromChunk, i, pageNum, allImages, chunkText, warned,
                      chunkImages, caught, generatedHtml, writes, sent, declined,
                      startStore, afterFailure, sliceVars, epubVars, pixelVars>>

\* chat.sendMessage resolves: the turn joins the conversation's history.
AttemptOk ==
    /\ rpc = "call"
    /\ calls' = calls + 1
    /\ chat' = Append(chat, message)
    /\ response' \in (IF caller = "final" THEN FinalResponses ELSE {"ack"})
    /\ rpc' = "returned"
    /\ UNCHANGED <<orchestratorVars, caller, message, attempt, delay, lastErr,
                   thrown, waits>>

\* chat.sendMessage rejects with an error whose string holds the patterns e.
AttemptFails(e) ==
    /\ rpc = "call"
    /\ calls' = calls + 1
    /\ lastErr' = Err(e, e, TRUE, calls + 1)
    /\ rpc' = "caught"
    /\ UNCHANGED <<orchestratorVars, chat, caller, message, attempt, delay, thrown,
                   response, waits>>

\* Mutant of ShouldRetry: the last attempt is not told apart from the others.
ShouldRetry_OffByOne(err, att) ==
    /\ ~IsQuotaError(err)
    /\ IsRetriableError(err)
    /\ att < MAX_RETRIES

\* Mutant of ShouldRetry: the quota test is missing.
ShouldRetry_NoQuotaTest(err, att) ==
    /\ IsRetriableError(err)
    /\ att < MAX_RETRIES - 1

\* Mutant of ShouldRetry: every error but a quota error is retried.
ShouldRetry_AnyError(err, att) ==
    /\ ~IsQuotaError(err)
    /\ att < MAX_RETRIES - 1

\* The catch block's decision to wait and try again.
ShouldRetry(err, att) ==
    /\ ~IsQuotaError(err)
    /\ IsRetriableError(err)
    /\ att < MAX_RETRIES - 1

\* The error the function throws when the loop runs out (its last line).
FallbackError == Err({}, {}, TRUE, 0)

\* The error is re-thrown to the caller.
RetryThrow ==
    /\ rpc = "caught"
    /\ ~ShouldRetry(lastErr, attempt)
    /\ thrown' = lastErr
    /\ rpc' = "thrown"
    /\ UNCHANGED <<orchestratorVars, chat, caller, message, attempt, delay, lastErr,
                   response, calls, waits>>

\* Mutant of RetryWait: the delay grows by the initial delay, not by doubling.
RetryWait_Linear(j) ==
    /\ rpc = "caught"
    /\ ShouldRetry(lastErr, attempt)
    /\ waits' = Append(waits, delay)
    /\ delay' = delay + INITIAL_DELAY_MS + j
    /\ attempt' = attempt + 1
    /\ lastErr' = NoErr
    /\ IF attempt + 1 < MAX_RETRIES
       THEN /\ rpc' = "call"
            /\ thrown' = thrown
       ELSE /\ rpc' = "thrown"
            /\ thrown' = FallbackError
    /\ UNCHANGED <<orchestratorVars, chat, caller, message, response, calls>>

\* The backoff wait, the new delay (jitter j), and the loop's next round.
RetryWait(j) ==
    /\ rpc = "caught"
    /\ ShouldRetry(lastErr, attempt)
    /\ waits' = Append(waits, delay)
    /\ delay' = delay * 2 + j
    /\ attempt' = attempt + 1
    /\ lastErr' = NoErr
    /\ IF attempt + 1 < MAX_RETRIES
       THEN /\ rpc' = "call"
            /\ thrown' = thrown
       ELSE /\ rpc' = "thrown"
            /\ thrown' = FallbackError
    /\ UNCHANGED <<orchestratorVars, chat, caller, message, response, calls>>

\* ------------------------------------------------------------ handleConvert, continued

\* Mutant of SaveAfter: the snapshot after success keeps the chunk's own index.
SaveAfter_SameIndex ==
    /\ pc = "retry"
    /\ caller = "chunk"
    /\ rpc = "returned"
    /\ store' = Session(i, numPages, chat, allImages)
    /\ writes' = Append(writes, i)
    /\ pc' = "throttle"
    /\ ResetRetry
    /\ UNCHANGED <<docVars, effectVars, appVars, shouldResume, forceNew, resumeFromChunk, i,
                   pageNum, chat, allImages, chunkText, warned, chunkImages, caught,
                   generatedHtml, calls, waits, sent, declined, startStore,
                   afterFailure, sliceVars, epubVars, pixelVars>>

\* sendPdfChunkToChat returned: the snapshot after success.
SaveAfter ==
    /\ pc = "retry"
    /\ caller = "chunk"
    /\ rpc = "returned"
    /\ store' = Session(i + 1, numPages, chat, allImages)
    /\ writes' = Append(writes, i + 1)
    /\ pc' = "throttle"
    /\ ResetRetry
    /\ UNCHANGED <<docVars, effectVars, appVars, shouldResume, forceNew, resumeFromChunk, i,
                   pageNum, chat, allImages, chunkText, warned, chunkImages, caught,
                   generatedHtml, calls, waits, sent, declined, startStore, afterFailure, sliceVars, epubVars, pixelVars>>

\* The throttle sleep is over: the loop's next round.
Throttle ==
    /\ pc = "throttle"
    /\ LoopHead(i + 1)
    /\ UNCHANGED <<docVars, effectVars, store, appVars, shouldResume, forceNew, resumeFromChunk,
                   chat, allImages, caught, generatedHtml, retryVars, calls, waits,
                   sent, declined, startStore, afterFailure, sliceVars, epubVars, pixelVars>>

\* Mutant of ChunkThrows: the error of a submission is swallowed and the loop
\* goes on to the next chunk.
ChunkThrows_Continues ==
    /\ pc = "retry"
    /\ caller = "chunk"
    /\ rpc = "thrown"
    /\ pc' = "throttle"
    /\ ResetRetry
    /\ UNCHANGED <<docVars, effectVars, store, appVars, shouldResume, forceNew, resumeFromChunk,
                   i, pageNum, chat, allImages, chunkText, warned, chunkImages, caught,
                   generatedHtml, obsVars, sliceVars, epubVars, pixelVars>>

\* sendPdfChunkToChat threw.
ChunkThrows ==
    /\ pc = "retry"
    /\ caller = "chunk"
    /\ rpc = "thrown"
    /\ Throw(thrown)

\* finishEpubConversionChat is called after the loop.
Finish ==
    /\ pc = "finish"
    /\ pc' = "retry"
    /\ Invoke("final", FinalMessage)
    /\ UNCHANGED <<docVars, effectVars, store, appVars, shouldResume, forceNew, resumeFromChunk,
                   i, pageNum, chat, allImages, chunkText, warned, chunkImages, caught,
                   generatedHtml, writes, sent, declined, startStore, afterFailure,
                   sliceVars, epubVars, pixelVars>>

\* The error finishEpubConversionChat's own catch block throws in place of
\* inner: a new Error whose message ends with inner's message, or with
\* "An unknown error occurred." when inner is no Error instance.  A new Error
\* has no enumerable property, so JSON.stringify gives "{}".
WrapFinishError(inner) ==
    Err({}, IF inner.isError THEN inner.msg ELSE {"unknown"}, TRUE, 0)

\* The error JSON.parse raises on text that does not parse, and the one thrown
\* for a response without htmlContent (its message names the field).
ParseError == Err({}, {}, TRUE, 0)

MissingFieldError == Err({}, {"did not contain 'htmlContent'"}, TRUE, 0)

\* sendMessageWithRetry returned the final response, which parses and has
\* htmlContent.
FinishReturns ==
    /\ pc = "retry"
    /\ caller = "final"
    /\ rpc = "returned"
    /\ response = "html"
    /\ generatedHtml' = "html"
    /\ pc' = "package"
    /\ ResetRetry
    /\ UNCHANGED <<docVars, effectVars, store, appVars, shouldResume, forceNew, resumeFromChunk,
                   i, pageNum, chat, allImages, chunkText, warned, chunkImages, caught,
                   obsVars, sliceVars, epubVars, pixelVars>>

\* Mutant of FinishMalformed: a malformed final response is asked for again
\* while attempts are left.
FinishMalformed_Retries ==
    /\ pc = "retry"
    /\ caller = "final"
    /\ rpc = "returned"
    /\ response # "html"
    /\ IF calls < MAX_RETRIES
       THEN /\ rpc' = "call"
            /\ response' = "none"
            /\ UNCHANGED <<orchestratorVars, chat, caller, message, attempt, delay,
                           lastErr, thrown, calls, waits>>
       ELSE Throw(WrapFinishError(IF response = "bad_json"
                                  THEN ParseError ELSE MissingFieldError))

\* The final response does not parse, or has no htmlContent: the error is
\* thrown inside the try block and wrapped by its catch block.
FinishMalformed ==
    /\ pc = "retry"
    /\ caller = "final"
    /\ rpc = "returned"
    /\ response # "html"
    /\ Throw(WrapFinishError(IF response = "bad_json"
                             THEN ParseError ELSE MissingFieldError))

\* sendMessageWithRetry threw during finalize.
FinishThrows ==
    /\ pc = "retry"
    /\ caller = "final"
    /\ rpc = "thrown"
    /\ Throw(WrapFinishError(thrown))

\* Mutant of Package: the archive is kept but the session is not removed.
Package_KeepsSession ==
    /\ pc = "package"
    /\ epubBlob' = TRUE
    /\ store' = store
    /\ pc' = "finally"
    /\ prevStart' = 0
    /\ UNCHANGED <<docVars, discarded, file, isLoading, error, resumableSession,
                   isRetriableError, shouldResume, forceNew, resumeFromChunk, i,
                   pageNum, chat, allImages, chunkText, warned, chunkImages, caught,
                   generatedHtml, retryVars, obsVars, sliceVars, epubVars, pixelVars>>

\* generateEpub resolves: the archive is kept and the session removed.
Package ==
    /\ pc = "package"
    /\ epubBlob' = TRUE
    /\ store' = Absent
    /\ pc' = "finally"
    /\ prevStart' = 0
    /\ UNCHANGED <<docVars, discarded, file, isLoading, error, resumableSession,
                   isRetriableError, shouldResume, forceNew, resumeFromChunk, i,
                   pageNum, chat, allImages, chunkText, warned, chunkImages, caught,
                   generatedHtml, retryVars, obsVars, sliceVars, epubVars, pixelVars>>

\* generateEpub throws.
PackageFails ==
    /\ pc = "package"
    /\ Throw(Err({}, {}, TRUE, 0))

\* The message the catch block shows for err, and whether Retry is offered.
ErrorKind(err) ==
    IF ErrorString(err) \cap QuotaPatterns # {} THEN "quota"
    ELSE IF ErrorString(err) \cap RateLimitPatterns # {} THEN "rate"
    ELSE IF ErrorString(err) \cap TransientPatterns # {} THEN "transient"
    ELSE "other"

\* Mutant of Catch: the catch block clears the stored session.
Catch_RemovesSession ==
    /\ pc = "catch"
    /\ error' = [kind |-> ErrorKind(caught),
                 detail |-> IF ErrorKind(caught) = "other" THEN caught.msg ELSE {}]
    /\ isRetriableError' = (ErrorKind(caught) = "transient")
    /\ store' = Absent
    /\ pc' = "finally"
    /\ UNCHANGED <<docVars, effectVars, file, isLoading, epubBlob, resumableSession,
                   shouldResume, forceNew, resumeFromChunk, i, pageNum, chat,
                   allImages, chunkText, warned, chunkImages, caught, generatedHtml,
                   retryVars, obsVars, sliceVars, epubVars, pixelVars>>

\* The catch block of handleConvert.
Catch ==
    /\ pc = "catch"
    /\ error' = [kind |-> ErrorKind(caught),
                 detail |-> IF ErrorKind(caught) = "other" THEN caught.msg ELSE {}]
    /\ isRetriableError' = (ErrorKind(caught) = "transient")
    /\ pc' = "finally"
    /\ UNCHANGED <<docVars, effectVars, store, file, isLoading, epubBlob, resumableSession,
                   shouldResume, forceNew, resumeFromChunk, i, pageNum, chat,
                   allImages, chunkText, warned, chunkImages, caught, generatedHtml,
                   retryVars, obsVars, sliceVars, epubVars, pixelVars>>

\* Mutant of Finally: the finally block leaves isLoading set.
Finally_KeepsLoading ==
    /\ pc = "finally"
    /\ isLoading' = isLoading
    /\ ResetRun
    /\ ResetRetry
    /\ ResetRunObs
    /\ UNCHANGED <<docVars, effectVars, store, file, error, epubBlob, resumableSession,
                   isRetriableError, sliceVars, epubVars, pixelVars>>

\* The finally block: the run is over.
Finally ==
    /\ pc = "finally"
    /\ isLoading' = FALSE
    /\ ResetRun
    /\ ResetRetry
    /\ ResetRunObs
    /\ UNCHANGED <<docVars, effectVars, store, file, error, epubBlob, resumableSession,
                   isRetriableError, sliceVars, epubVars, pixelVars>>

\* ------------------------------------------------------------ specification

Next ==
    \/ SelectFile
    \/ Convert
    \/ StartOver
    \/ Reload
    \/ LoadPdf
    \/ \E e \in ExtractionErrorStrings : LoadPdfFails(e)
    \/ ExtractPage
    \/ \E e \in ExtractionErrorStrings : ExtractPageFails(e)
    \/ SaveBefore
    \/ SubmitChunk
    \/ AttemptOk
    \/ \E e \in RunErrorStrings : AttemptFails(e)
    \/ RetryThrow
    \/ \E j \in RunJitters : RetryWait(j)
    \/ SaveAfter
    \/ Throttle
    \/ ChunkThrows
    \/ Finish
    \/ FinishReturns
    \/ FinishMalformed
    \/ FinishThrows
    \/ Package
    \/ PackageFails
    \/ Catch
    \/ Finally

Spec == Init /\ [][Next]_vars

\* ------------------------------------------------------------ the user who keeps going

\* A two-chunk document with nothing stored for it.
InitLive ==
    /\ Init
    /\ numPages = MaxPages
    /\ store = Absent

\* The errors the service raises while the user keeps going: one that
\* sendMessageWithRetry retries and one that it throws at once.
LiveErrorStrings == { {"429"}, {} }

\* The user selects the file when none is selected.
SelectAgain == SelectFile /\ file = "none"

\* With no archive on the page, the user presses Convert / Resume or Retry
\* and, when asked, chooses to resume.
ConvertAgain == ~epubBlob /\ Convert /\ ~declined'

\* The steps handleConvert and sendMessageWithRetry take by themselves.
RunSteps ==
    \/ LoadPdf
    \/ ExtractPage
    \/ SaveBefore
    \/ SubmitChunk
    \/ AttemptOk
    \/ RetryThrow
    \/ \E j \in RunJitters : RetryWait(j)
    \/ SaveAfter
    \/ Throttle
    \/ ChunkThrows
    \/ Finish
    \/ FinishReturns
    \/ FinishMalformed
    \/ FinishThrows
    \/ Package
    \/ Catch
    \/ Finally

\* What fails or interrupts a run: the service rejects a call or answers the
\* final turn with something that is no book, or the page is reloaded.
ServiceFails ==
    \/ \E e \in LiveErrorStrings : AttemptFails(e)
    \/ AttemptOk /\ response' \in {"no_field", "bad_json"}

NextLive ==
    \/ SelectAgain
    \/ ConvertAgain
    \/ Reload
    \/ \E e \in LiveErrorStrings : AttemptFails(e)
    \/ RunSteps

\* The event loop runs every continuation that is ready, and the user comes
\* back after every run that did not end the work.
SpecLive ==
    /\ InitLive
    /\ [][NextLive]_vars
    /\ WF_vars(RunSteps)
    /\ WF_vars(SelectAgain)
    /\ WF_vars(ConvertAgain)

\* ------------------------------------------------------------ sendMessageWithRetry on its own

\* One invocation of sendMessageWithRetry, from its entry: the application is
\* in the state it has when a one-page document's only chunk is submitted, or
\* when finalize follows it.
InitRetry ==
    /\ numPages = 1
    /\ imagesOn = Layout(numPages)
    /\ discarded = "none"
    /\ prevStart = 0
    /\ file = "doc"
    /\ isLoading = TRUE
    /\ error = NoError
    /\ epubBlob = FALSE
    /\ resumableSession = Null
    /\ isRetriableError = FALSE
    /\ pc = "retry"
    /\ shouldResume = FALSE
    /\ forceNew = FALSE
    /\ resumeFromChunk = 0
    /\ allImages = <<>>
    /\ chunkImages = <<>>
    /\ warned = <<>>
    /\ caught = NoErr
    /\ generatedHtml = "none"
    /\ caller \in {"chunk", "final"}
    /\ IF caller = "chunk"
       THEN /\ i = 0
            /\ pageNum = 1
            /\ chunkText = <<PageToken(1)>>
            /\ chat = <<>>
            /\ message = ChunkMessage(chunkText, chunkImages, 1, 1)
            /\ store = Session(0, 1, <<>>, <<>>)
            /\ writes = <<0>>
       ELSE /\ i = 1
            /\ pageNum = 0
            /\ chunkText = <<>>
            /\ chat = <<ChunkMessage(<<PageToken(1)>>, <<>>, 1, 1)>>
            /\ message = FinalMessage
            /\ store = Session(1, 1, chat, <<>>)
            /\ writes = <<>>
    /\ rpc = "call"
    /\ attempt = 0
    /\ delay = INITIAL_DELAY_MS
    /\ lastErr = NoErr
    /\ thrown = NoErr
    /\ response = "none"
    /\ calls = 0
    /\ waits = <<>>
    /\ sent = <<0>>
    /\ declined = FALSE
    /\ startStore = Absent
    /\ afterFailure = FALSE
    /\ SliceIdle
    /\ EpubIdle
    /\ PixelIdle

NextRetry ==
    \/ AttemptOk
    \/ \E e \in ServiceErrorStrings : AttemptFails(e)
    \/ RetryThrow
    \/ \E j \in Jitters : RetryWait(j)

SpecRetry == InitRetry /\ [][NextRetry]_vars

\* ------------------------------------------------------------ chunk slicing on its own

\* The chunk loop and its page loop for a document of sP pages cut into chunks
\* of sC pages: sCovered collects the pages visited, sOverlap tells whether a
\* page was visited twice or a chunk had no page.
InitSlice ==
    /\ numPages = 1
    /\ imagesOn = Layout(numPages)
    /\ store = Absent
    /\ discarded = "none"
    /\ prevStart = 0
    /\ AppInit
    /\ RunInit
    /\ RetryInit
    /\ ObsInit
    /\ sP \in 1..MaxSlicePages
    /\ sC \in 1..MaxSliceChunk
    /\ si = 0
    /\ sCovered = {}
    /\ sOverlap = FALSE
    /\ EpubIdle
    /\ PixelIdle

SliceChunk ==
    /\ sP > 0
    /\ si < NumChunks(sP, sC)
    /\ LET pages == StartPage(si, sC)..EndPage(si, sC, sP)
       IN  /\ sCovered' = sCovered \cup pages
           /\ sOverlap' = (sOverlap \/ pages = {} \/ pages \cap sCovered # {})
    /\ si' = si + 1
    /\ UNCHANGED <<sP, sC, docVars, effectVars, store, appVars, runVars, retryVars,
                   obsVars, epubVars, pixelVars>>

NextSlice == SliceChunk

SpecSlice == InitSlice /\ [][NextSlice]_vars

\* ------------------------------------------------------------ extraction on its own

RECURSIVE ImagesUpTo(_, _)
ImagesUpTo(layout, p) ==
    IF p = 0 THEN 0 ELSE layout[p] + ImagesUpTo(layout, p - 1)

\* Documents of one chunk and of two, with up to MaxOnPage images on a page
\* and MaxImages in all.
ExtractPageCounts == {2, CHUNK_SIZE + 1}

ExtractLayouts(n) ==
    { layout \in [1..n -> 0..MaxOnPage] : ImagesUpTo(layout, n) <= MaxImages }

\* A run that does not resume, from the first round of its chunk loop: the
\* document is loaded, the stored session removed, the conversation new.
InitExtract ==
    /\ numPages \in ExtractPageCounts
    /\ imagesOn \in ExtractLayouts(numPages)
    /\ store = Absent
    /\ discarded = "none"
    /\ prevStart = 0
    /\ file = "doc"
    /\ isLoading = TRUE
    /\ error = NoError
    /\ epubBlob = FALSE
    /\ resumableSession = Null
    /\ isRetriableError = FALSE
    /\ pc = "page"
    /\ shouldResume = FALSE
    /\ forceNew = FALSE
    /\ resumeFromChunk = 0
    /\ i = 0
    /\ pageNum = 1
    /\ chat = <<>>
    /\ allImages = <<>>
    /\ chunkText = <<>>
    /\ warned = <<>>
    /\ chunkImages = <<>>
    /\ caught = NoErr
    /\ generatedHtml = "none"
    /\ RetryInit
    /\ ObsInit
    /\ SliceIdle
    /\ EpubIdle
    /\ PixelIdle

\* The chunk loop while the service acknowledges every chunk.
NextExtract ==
    \/ ExtractPage
    \/ \E e \in ExtractionErrorStrings : ExtractPageFails(e)
    \/ SaveBefore
    \/ SubmitChunk
    \/ AttemptOk
    \/ SaveAfter
    \/ Throttle

SpecExtract == InitExtract /\ [][NextExtract]_vars

\* ------------------------------------------------------------ pixel normalisation

\* ctx.createImageData(w, h): a Uint8ClampedArray of 4wh entries, all 0.
CreateImageDataArray(w, h) == [k \in 1..(4 * w * h) |-> 0]

\* data[l] read for storing into a Uint8ClampedArray: an index past the end
\* reads undefined, which is stored as 0.
At(data, l) == IF l < Len(data) THEN data[l + 1] ELSE 0

\* Mutant of Store: a write past the end grows the buffer, as it would a plain
\* array.
Store_Grows(buf, k, v) ==
    IF k < Len(buf)
    THEN [buf EXCEPT ![k + 1] = v]
    ELSE [n \in 1..(k + 1) |-> IF n <= Len(buf) THEN buf[n] ELSE IF n = k + 1 THEN v ELSE 0]

\* imageData.data[k] = v on a typed array: a write past the end is ignored.
Store(buf, k, v) ==
    IF k < Len(buf) THEN [buf EXCEPT ![k + 1] = v] ELSE buf

\* One round of the RGB loop: three entries of data and an alpha of 255.
RgbPixel(buf, data, l, k) ==
    Store(Store(Store(Store(buf, k, At(data, l)),
                      k + 1, At(data, l + 1)),
                k + 2, At(data, l + 2)),
          k + 3, 255)

\* One round of the fallback loop: one entry of data, repeated three times,
\* and an alpha of 255.
GrayPixel(buf, data, l, k) ==
    Store(Store(Store(Store(buf, k, At(data, l)),
                      k + 1, At(data, l)),
                k + 2, At(data, l)),
          k + 3, 255)

\* The pixel buffers normalised: every length from 0 to one past 4wh, filled
\* from a sample.
Samples == {0, 85, 255}

PixelBuffers(w, h) ==
    { [l \in 1..len |-> (s * l) % 256] : len \in 0..(4 * w * h + 1), s \in Samples }

\* An image object with a pixel buffer was read from page.commonObjs and the
\* canvas has a 2d context.
InitPixels ==
    /\ numPages = 1
    /\ imagesOn = Layout(numPages)
    /\ store = Absent
    /\ discarded = "none"
    /\ prevStart = 0
    /\ AppInit
    /\ RunInit
    /\ RetryInit
    /\ ObsInit
    /\ SliceIdle
    /\ EpubIdle
    /\ imgWidth \in 1..MaxSide
    /\ imgHeight \in 1..MaxSide
    /\ imgData \in PixelBuffers(imgWidth, imgHeight)
    /\ imageData = <<>>
    /\ npc = "create"
    /\ pl = 0
    /\ pk = 0

restVars == <<docVars, store, effectVars, appVars, runVars, retryVars, obsVars,
              sliceVars, epubVars>>

\* ctx.createImageData(img.width, img.height) throws IndexSizeError when a
\* side is 0.
CreateImageData ==
    /\ npc = "create"
    /\ IF imgWidth = 0 \/ imgHeight = 0
       THEN /\ npc' = "error"
            /\ imageData' = imageData
       ELSE /\ npc' = "test"
            /\ imageData' = CreateImageDataArray(imgWidth, imgHeight)
    /\ UNCHANGED <<restVars, imgWidth, imgHeight, imgData, pl, pk>>

\* img.data.length === img.width * img.height * 3: the RGB loop is entered.
CopyRgb ==
    /\ npc = "test"
    /\ Len(imgData) = imgWidth * imgHeight * 3
    /\ npc' = "rgb"
    /\ pl' = 0
    /\ pk' = 0
    /\ UNCHANGED <<restVars, imgWidth, imgHeight, imgData, imageData>>

\* img.data.length === img.width * img.height * 4: imageData.data.set, which
\* throws RangeError when the source is longer than the target.
CopyRgba ==
    /\ npc = "test"
    /\ Len(imgData) # imgWidth * imgHeight * 3
    /\ Len(imgData) = imgWidth * imgHeight * 4
    /\ IF Len(imgData) > Len(imageData)
       THEN /\ npc' = "error"
            /\ imageData' = imageData
       ELSE /\ npc' = "put"
            /\ imageData' = [n \in 1..Len(imageData) |->
                                IF n <= Len(imgData) THEN imgData[n] ELSE imageData[n]]
    /\ UNCHANGED <<restVars, imgWidth, imgHeight, imgData, pl, pk>>

\* Any other length: the fallback loop is entered.
CopyGray ==
    /\ npc = "test"
    /\ Len(imgData) # imgWidth * imgHeight * 3
    /\ Len(imgData) # imgWidth * imgHeight * 4
    /\ npc' = "gray"
    /\ pl' = 0
    /\ pk' = 0
    /\ UNCHANGED <<restVars, imgWidth, imgHeight, imgData, imageData>>

\* for (l = 0; l < img.data.length; l += 3): one round.
RgbRound ==
    /\ npc = "rgb"
    /\ pl < Len(imgData)
    /\ imageData' = RgbPixel(imageData, imgData, pl, pk)
    /\ pl' = pl + 3
    /\ pk' = pk + 4
    /\ UNCHANGED <<restVars, imgWidth, imgHeight, imgData, npc>>

\* for (l = 0; l < img.data.length; l++): one round.
GrayRound ==
    /\ npc = "gray"
    /\ pl < Len(imgData)
    /\ imageData' = GrayPixel(imageData, imgData, pl, pk)
    /\ pl' = pl + 1
    /\ pk' = pk + 4
    /\ UNCHANGED <<restVars, imgWidth, imgHeight, imgData, npc>>

\* The loop condition fails: on to ctx.putImageData.
LoopExit ==
    /\ npc \in {"rgb", "gray"}
    /\ ~(pl < Len(imgData))
    /\ npc' = "put"
    /\ UNCHANGED <<restVars, imgWidth, imgHeight, imgData, imageData, pl, pk>>

\* ctx.putImageData(imageData, 0, 0).
PutImageData ==
    /\ npc = "put"
    /\ npc' = "done"
    /\ UNCHANGED <<restVars, imgWidth, imgHeight, imgData, imageData, pl, pk>>

NextPixels ==
    \/ CreateImageData
    \/ CopyRgb
    \/ CopyRgba
    \/ CopyGray
    \/ RgbRound
    \/ GrayRound
    \/ LoopExit
    \/ PutImageData

SpecPixels == InitPixels /\ [][NextPixels]_vars

\* ------------------------------------------------------------ generateEpub

\* The src attribute of an img element, by what generateEpub reads of it.
\* getAttribute gives null:
NoSrc == [form |-> "none"]

\* A string that does not start with "data:":
UrlSrc == [form |-> "url"]

\* A string that starts with "data:".  header = src.split(',')[0]; semi tells
\* whether a ';' follows the colon in the header, mime is the text between
\* the two as <<type, subtype>> (a missing piece is ""), parts are the pieces
\* src.split(',') gives after the header.
DataSrc(semi, mime, parts) ==
    [form |-> "data", semi |-> semi, mime |-> mime, parts |-> parts]

\* The file name `image${imageCounter}.${extension}`.
Filename(counter, extension) == [image |-> counter, ext |-> extension]

\* The string `images/${filename}` the src is set to.
PathSrc(filename) == [form |-> "path", path |-> <<"images", filename>>]

Png == <<"image", "png">>

\* The src values the markup is made of: none, a URL, two base64 data URIs
\* (one with an empty media type), a data URI without ';' in its header, one
\* without ',', and one with nothing after the ','.
SrcForms ==
    { NoSrc, UrlSrc,
      DataSrc(TRUE, Png, <<"AAAA">>),
      DataSrc(TRUE, <<"", "">>, <<"BBBB">>),
      DataSrc(FALSE, Png, <<"AAAA">>),
      DataSrc(TRUE, Png, <<>>),
      DataSrc(TRUE, Png, <<"">>) }

\* An a element of the table of contents: its text and its href attribute.
Link(text, hasHref, href) == [text |-> text, hasHref |-> hasHref, href |-> href]

LinkForms == { Link("Chapter", TRUE, "#s1"), Link("", FALSE, "") }

SeqsUpTo(S, n) == UNION { [1..k -> S] : k \in 0..n }

\* The markup handed to generateEpub: the text of its title element ("" when
\* there is none), its img elements and its nav ol li a elements, in document
\* order.
Markups ==
    [title : {"", "Book"},
     imgs : SeqsUpTo(SrcForms, MaxImgs),
     links : SeqsUpTo(LinkForms, MaxLinks)]

\* src && src.startsWith('data:')
StartsWithData(src) == src.form = "data"

\* header.match(/:(.*?);/) is not null.
MimeMatch(src) == src.semi

\* base64Data is truthy: split gave a second piece and it is not empty.
HasBase64Data(src) == Len(src.parts) >= 1 /\ src.parts[1] # ""

\* mimeType.split('/')[1] || 'jpeg'
Extension(mimeType) == IF mimeType[2] # "" THEN mimeType[2] ELSE "jpeg"

\* The item pushed on imageManifestItems.
ManifestItem(counter, filename, mimeType) ==
    [id |-> counter, href |-> <<"images", filename>>, mediaType |-> mimeType]

\* Mutant of NavPoint: id and playOrder are the 0-based index itself.
NavPoint_ZeroBased(index, link) ==
    [id |-> index, playOrder |-> index, text |-> link.text,
     src |-> <<"content.xhtml", IF link.hasHref THEN link.href ELSE "">>]

\* The navPoint built for the link at position index (from 0).
NavPoint(index, link) ==
    [id |-> index + 1, playOrder |-> index + 1, text |-> link.text,
     src |-> <<"content.xhtml", IF link.hasHref THEN link.href ELSE "">>]

\* JSZip: the files of the archive in the order they were added: name is the
\* path as a sequence of segments, compression the per-file option.
Entry(name, content, compression) ==
    [name |-> name, dir |-> FALSE, content |-> content, compression |-> compression]

Folder(name) ==
    [name |-> name, dir |-> TRUE, content |-> "", compression |-> "unset"]

HasEntry(files, name) == \E k \in 1..Len(files) : files[k].name = name

\* A name already in the archive keeps its place; a new one goes last.
Put(files, e) ==
    IF HasEntry(files, e.name)
    THEN [k \in 1..Len(files) |-> IF files[k].name = e.name THEN e ELSE files[k]]
    ELSE Append(files, e)

\* folder(name): the folder entry is added unless it is there, after its
\* parents when cf (the createFolders option) is set.
RECURSIVE FolderAdd(_, _, _)
FolderAdd(files, name, cf) ==
    IF HasEntry(files, name)
    THEN files
    ELSE LET base == IF cf /\ Len(name) > 1
                     THEN FolderAdd(files, SubSeq(name, 1, Len(name) - 1), TRUE)
                     ELSE files
         IN  Append(base, Folder(name))

\* file(name, content, {compression}).
FileAdd(files, name, content, compression, cf) ==
    LET base == IF cf /\ Len(name) > 1
                THEN FolderAdd(files, SubSeq(name, 1, Len(name) - 1), TRUE)
                ELSE files
    IN  Put(base, Entry(name, content, compression))

\* generateAsync without a compression option: a file without its own option
\* is stored.
Generated(files) ==
    [k \in 1..Len(files) |->
        [files[k] EXCEPT !.compression =
            IF files[k].compression = "unset" THEN "STORE" ELSE files[k].compression]]

appSideVars == <<docVars, store, effectVars, appVars, runVars, retryVars, obsVars,
                 sliceVars, pixelVars>>

\* generateEpub(htmlContent, title) is entered for some markup.
InitEpub ==
    /\ numPages = 1
    /\ imagesOn = Layout(numPages)
    /\ store = Absent
    /\ discarded = "none"
    /\ prevStart = 0
    /\ AppInit
    /\ RunInit
    /\ RetryInit
    /\ ObsInit
    /\ SliceIdle
    /\ PixelIdle
    /\ htmlContent \in Markups
    /\ title = "file"
    /\ createFolders \in BOOLEAN
    /\ epc = "parse"
    /\ doc = NoDoc
    /\ bookTitle = ""
    /\ jszip = <<>>
    /\ imgIdx = 0
    /\ imageCounter = 0
    /\ imageManifestItems = <<>>
    /\ blob = <<>>

\* parseFromString, and the book title: the title element's text, or the
\* title argument when that is empty or missing.
ParseMarkup ==
    /\ epc = "parse"
    /\ doc' = [title |-> htmlContent.title, imgs |-> htmlContent.imgs,
               links |-> htmlContent.links, linked |-> FALSE]
    /\ bookTitle' = IF htmlContent.title # "" THEN htmlContent.title ELSE title
    /\ epc' = "mimetype"
    /\ UNCHANGED <<appSideVars, htmlContent, title, createFolders, jszip, imgIdx,
                   imageCounter, imageManifestItems, blob>>

\* Mutant of AddMimetype: the marker file is added without the STORE option.
AddMimetype_NoStore ==
    /\ epc = "mimetype"
    /\ jszip' = FileAdd(jszip, <<"mimetype">>, "application/epub+zip", "DEFLATE",
                        createFolders)
    /\ epc' = "container"
    /\ UNCHANGED <<appSideVars, htmlContent, title, createFolders, doc, bookTitle,
                   imgIdx, imageCounter, imageManifestItems, blob>>

\* 1. The mimetype file.
AddMimetype ==
    /\ epc = "mimetype"
    /\ jszip' = FileAdd(jszip, <<"mimetype">>, "application/epub+zip", "STORE",
                        createFolders)
    /\ epc' = "container"
    /\ UNCHANGED <<appSideVars, htmlContent, title, createFolders, doc, bookTitle,
                   imgIdx, imageCounter, imageManifestItems, blob>>

\* 2. The container file.
AddContainer ==
    /\ epc = "container"
    /\ jszip' = FileAdd(jszip, <<"META-INF", "container.xml">>,
                        [rootfile |-> <<"OEBPS", "content.opf">>], "unset",
                        createFolders)
    /\ epc' = "folders"
    /\ UNCHANGED <<appSideVars, htmlContent, title, createFolders, doc, bookTitle,
                   imgIdx, imageCounter, imageManifestItems, blob>>

\* The OEBPS folder and its images folder; the image loop starts.
MakeFolders ==
    /\ epc = "folders"
    /\ jszip' = FolderAdd(FolderAdd(jszip, <<"OEBPS">>, createFolders),
                          <<"OEBPS", "images">>, createFolders)
    /\ imgIdx' = 1
    /\ imageCounter' = 0
    /\ imageManifestItems' = <<>>
    /\ epc' = "images"
    /\ UNCHANGED <<appSideVars, htmlContent, title, createFolders, doc, bookTitle,
                   blob>>

\* Mutant of ProcessImage: the counter advances for every img element.
ProcessImage_CountsAll ==
    /\ epc = "images"
    /\ imgIdx <= Len(doc.imgs)
    /\ LET src == doc.imgs[imgIdx]
       IN  IF StartsWithData(src) /\ MimeMatch(src) /\ HasBase64Data(src)
           THEN LET mimeType == src.mime
                    filename == Filename(imageCounter, Extension(mimeType))
                IN  /\ jszip' = FileAdd(jszip, <<"OEBPS", "images", filename>>,
                                        src.parts[1], "unset", createFolders)
                    /\ doc' = [doc EXCEPT !.imgs[imgIdx] = PathSrc(filename)]
                    /\ imageManifestItems' =
                          Append(imageManifestItems,
                                 ManifestItem(imageCounter, filename, mimeType))
           ELSE UNCHANGED <<jszip, doc, imageManifestItems>>
    /\ imageCounter' = imageCounter + 1
    /\ imgIdx' = imgIdx + 1
    /\ UNCHANGED <<appSideVars, htmlContent, title, createFolders, epc, bookTitle,
                   blob>>

\* 3. One round of the image loop: an img whose src is a data URI with a
\* media type before ';' and data after ',' is written to the images folder,
\* its src rewritten, a manifest item pushed and the counter advanced; any
\* other img is passed over.
ProcessImage ==
    /\ epc = "images"
    /\ imgIdx <= Len(doc.imgs)
    /\ LET src == doc.imgs[imgIdx]
       IN  IF StartsWithData(src) /\ MimeMatch(src) /\ HasBase64Data(src)
           THEN LET mimeType == src.mime
                    filename == Filename(imageCounter, Extension(mimeType))
                IN  /\ jszip' = FileAdd(jszip, <<"OEBPS", "images", filename>>,
                                        src.parts[1], "unset", createFolders)
                    /\ doc' = [doc EXCEPT !.imgs[imgIdx] = PathSrc(filename)]
                    /\ imageManifestItems' =
                          Append(imageManifestItems,
                                 ManifestItem(imageCounter, filename, mimeType))
                    /\ imageCounter' = imageCounter + 1
           ELSE UNCHANGED <<jszip, doc, imageManifestItems, imageCounter>>
    /\ imgIdx' = imgIdx + 1
    /\ UNCHANGED <<appSideVars, htmlContent, title, createFolders, epc, bookTitle,
                   blob>>

\* 4. The stylesheet, and its link element in the head.
AddCss ==
    /\ epc = "images"
    /\ imgIdx > Len(doc.imgs)
    /\ jszip' = FileAdd(jszip, <<"OEBPS", "style.css">>, "css", "unset",
                        createFolders)
    /\ doc' = [doc EXCEPT !.linked = TRUE]
    /\ epc' = "toc"
    /\ UNCHANGED <<appSideVars, htmlContent, title, createFolders, bookTitle, imgIdx,
                   imageCounter, imageManifestItems, blob>>

\* 5. toc.ncx, one navPoint per table-of-contents link.
AddToc ==
    /\ epc = "toc"
    /\ jszip' = FileAdd(jszip, <<"OEBPS", "toc.ncx">>,
                        [title |-> bookTitle,
                         navPoints |-> [k \in 1..Len(doc.links) |->
                                           NavPoint(k - 1, doc.links[k])]],
                        "unset", createFolders)
    /\ epc' = "content"
    /\ UNCHANGED <<appSideVars, htmlContent, title, createFolders, doc, bookTitle,
                   imgIdx, imageCounter, imageManifestItems, blob>>

\* 6. content.xhtml: the document as it is now.
AddContent ==
    /\ epc = "content"
    /\ jszip' = FileAdd(jszip, <<"OEBPS", "content.xhtml">>, doc, "unset",
                        createFolders)
    /\ epc' = "opf"
    /\ UNCHANGED <<appSideVars, htmlContent, title, createFolders, doc, bookTitle,
                   imgIdx, imageCounter, imageManifestItems, blob>>

\* 7. content.opf with the image manifest items.
AddOpf ==
    /\ epc = "opf"
    /\ jszip' = FileAdd(jszip, <<"OEBPS", "content.opf">>,
                        [title |-> bookTitle, manifest |-> imageManifestItems],
                        "unset", createFolders)
    /\ epc' = "generate"
    /\ UNCHANGED <<appSideVars, htmlContent, title, createFolders, doc, bookTitle,
                   imgIdx, imageCounter, imageManifestItems, blob>>

\* 8. generateAsync.
GenerateBlob ==
    /\ epc = "generate"
    /\ blob' = Generated(jszip)
    /\ epc' = "done"
    /\ UNCHANGED <<appSideVars, htmlContent, title, createFolders, doc, bookTitle,
                   jszip, imgIdx, imageCounter, imageManifestItems>>

NextEpub ==
    \/ ParseMarkup
    \/ AddMimetype
    \/ AddContainer
    \/ MakeFolders
    \/ ProcessImage
    \/ AddCss
    \/ AddToc
    \/ AddContent
    \/ AddOpf
    \/ GenerateBlob

SpecEpub == InitEpub /\ [][NextEpub]_vars

\* ------------------------------------------------------------ claims

\* Chunk j has been acknowledged in the conversation with history hist: a
\* chunk turn for exactly its page range is part of the history.
ChunkAckedIn(hist, j) ==
    \E k \in 1..Len(hist) :
        /\ hist[k].type = "chunk"
        /\ hist[k].startPage = StartPage(j, CHUNK_SIZE)
        /\ hist[k].endPage = EndPage(j, CHUNK_SIZE, numPages)

\* The positions of a run between the resume decision and the end of the try
\* block.
InTryBody == pc \in {"page", "save_before", "submit", "retry", "throttle",
                     "finish", "package"}

\* C1: whenever the session stored under the document's key has
\* currentChunk = n, every chunk index in [0, n) is acknowledged in the
\* conversation history stored in that same record.
C1_StoredSessionAcked ==
    store.kind = "session" =>
        \A j \in 0..(store.currentChunk - 1) : ChunkAckedIn(store.chatHistory, j)

\* C1 witness: a session that records two acknowledged chunks is stored.
C1_Witness ==
    /\ store.kind = "session"
    /\ store.currentChunk = 2
    /\ Len(store.chatHistory) = 2

\* C2: in the chunk loop the session is written once with currentChunk = i,
\* after chunk i's extraction and before its submission, and once with
\* currentChunk = i + 1 after the submission succeeded, and not otherwise.
C2_WritesPerChunk ==
    /\ pc \in {"page", "save_before"} => writes = <<>>
    /\ pc = "submit" => (writes = <<i>> /\ store.currentChunk = i)
    /\ (pc = "retry" /\ caller = "chunk") => (writes = <<i>> /\ store.currentChunk = i)
    /\ pc = "throttle" => (writes = <<i, i + 1>> /\ store.currentChunk = i + 1)

\* C2 witness: the second chunk has been acknowledged and both of its
\* snapshots written.
C2_Witness ==
    /\ pc = "throttle"
    /\ i = 1
    /\ writes = <<1, 2>>

\* C3: the error path of handleConvert (the step that throws, the catch block
\* and the finally block) neither writes nor removes the stored session.
C3_ErrorPathKeepsStore ==
    [][(pc' = "catch" \/ pc = "catch" \/ pc = "finally") => store' = store]_vars

\* C3 witness: a run has failed and ended, and the snapshot written before
\* the failure is still stored.
C3_Witness ==
    /\ pc = "idle"
    /\ ~isLoading
    /\ error # NoError
    /\ store.kind = "session"
    /\ store.currentChunk = 1

\* C4 (stated for a failure after at least one acknowledged chunk): when a
\* run has failed with a session of currentChunk = k >= 1 stored, the next run
\* started by Convert / Resume or Retry without re-selecting the file (resume
\* accepted when asked) begins at chunk k with the stored history, keeps the
\* stored session, and submits no chunk below k.
C4_NextRunResumesAtStoredChunk ==
    ( /\ InTryBody
      /\ afterFailure
      /\ ~forceNew
      /\ ~declined
      /\ startStore.kind = "session"
      /\ startStore.currentChunk >= 1 )
    => /\ resumeFromChunk = startStore.currentChunk
       /\ store.kind = "session"
       /\ Len(chat) >= Len(startStore.chatHistory)
       /\ SubSeq(chat, 1, Len(startStore.chatHistory)) = startStore.chatHistory
       /\ \A k \in 1..Len(sent) : sent[k] >= startStore.currentChunk

\* C5: a run that resumes from a session with currentChunk = n submits only
\* chunks n <= i < numChunks, and the text it submits holds no page of the
\* chunks 0..n-1.
C5_ResumeSubmitsOnlyFromN ==
    (InTryBody /\ shouldResume) =>
        /\ \A k \in 1..Len(sent) :
              /\ resumableSession.currentChunk <= sent[k]
              /\ sent[k] < NumChunks(numPages, CHUNK_SIZE)
        /\ (pc = "retry" /\ caller = "chunk") =>
              /\ message.startPage > resumableSession.currentChunk * CHUNK_SIZE
              /\ \A k \in 1..Len(message.text) :
                    message.text[k].t = "page" =>
                        message.text[k].n > resumableSession.currentChunk * CHUNK_SIZE

\* C5 witness: a run resumed from a session with currentChunk = 1 has
\* submitted chunk 1.
C5_Witness ==
    /\ shouldResume
    /\ resumableSession # Null
    /\ resumableSession.currentChunk = 1
    /\ pc = "retry"
    /\ caller = "chunk"
    /\ sent = <<1>>

\* C6: within one run the chunks are submitted in consecutive increasing
\* order from the resume point, each one only after the one before it was
\* acknowledged, and at most one submission is unacknowledged (in flight).
C6_SequentialSubmissions ==
    InTryBody =>
        /\ \A k \in 1..Len(sent) : sent[k] = resumeFromChunk + k - 1
        /\ \A k \in 1..(Len(sent) - 1) : ChunkAckedIn(chat, sent[k])
        /\ (Len(sent) >= 1 /\ ~ChunkAckedIn(chat, sent[Len(sent)])) =>
              (pc = "retry" /\ caller = "chunk" /\ rpc # "returned")

\* C6 witness: the second submission of a run is in flight after the first
\* was acknowledged.
C6_Witness ==
    /\ pc = "retry"
    /\ caller = "chunk"
    /\ rpc = "call"
    /\ sent = <<0, 1>>
    /\ ChunkAckedIn(chat, 0)

\* C7: for P pages cut into chunks of C pages, numChunks is the ceiling of
\* P / C and the page ranges of the chunks 0..numChunks-1 are non-empty,
\* pairwise disjoint and cover exactly 1..P.
C7_ChunksPartitionPages ==
    sP > 0 =>
        /\ NumChunks(sP, sC) * sC >= sP
        /\ (NumChunks(sP, sC) - 1) * sC < sP
        /\ ~sOverlap
        /\ sCovered \subseteq 1..sP
        /\ si = NumChunks(sP, sC) => sCovered = 1..sP

\* C7 witness: eleven pages in chunks of five have been sliced into three
\* chunks.
C7_Witness ==
    /\ sP = 11
    /\ sC = 5
    /\ si = 3
    /\ sCovered = 1..11

\* C8: one invocation of sendMessageWithRetry calls sendMessage at most 7
\* times, and when the 7th call fails too the error thrown is the one that
\* call raised.
C8_SevenAttemptsLastErrorThrown ==
    /\ calls <= 7
    /\ (rpc = "thrown" /\ calls = 7) =>
          /\ thrown.id = 7
          /\ thrown.str \in ServiceErrorStrings
          /\ Len(waits) = 6

\* C8 witness: seven calls failed with retriable errors and the seventh error
\* was thrown.
C8_Witness ==
    /\ rpc = "thrown"
    /\ calls = 7
    /\ thrown.id = 7
    /\ IsRetriableError(thrown)
    /\ ~IsQuotaError(thrown)

\* C9: after an attempt failed with a quota error, also one whose text
\* matches a retriable pattern, the next step throws that same error: no
\* further call and no wait follow; a quota error of the first attempt is
\* thrown after exactly one call.
C9_QuotaErrorNeverRetried ==
    /\ [](( rpc = "thrown" /\ IsQuotaError(thrown) ) =>
            (calls = thrown.id /\ Len(waits) = calls - 1))
    /\ [][( rpc = "caught" /\ IsQuotaError(lastErr) ) =>
            ( /\ rpc' = "thrown"
              /\ thrown' = lastErr
              /\ calls' = calls
              /\ waits' = waits )]_vars

\* C9 witness: the first attempt failed with a quota error that also matches
\* a retriable pattern, and it was thrown after that single call.
C9_Witness ==
    /\ rpc = "thrown"
    /\ thrown.str = {"quota exceeded", "429"}
    /\ calls = 1
    /\ waits = <<>>

\* The waits of an invocation so far: at most 6, the first 3000 ms, each
\* later one twice the one before plus a jitter in 0..999, one wait between
\* two consecutive calls and none after the last call.
WaitsShape ==
    /\ Len(waits) <= 6
    /\ Len(waits) >= 1 => waits[1] = 3000
    /\ \A k \in 2..Len(waits) :
          /\ waits[k] - 2 * waits[k - 1] \in 0..999
          /\ waits[k] > waits[k - 1]
    /\ Len(waits) = IF rpc = "call" THEN calls ELSE calls - 1

\* C10: the waits have the shape above, and a wait happens only after a
\* retriable failure of an attempt that is not the 7th.
C10_BackoffWaits ==
    /\ []WaitsShape
    /\ [][waits' # waits =>
            ( /\ rpc = "caught"
              /\ IsRetriableError(lastErr)
              /\ lastErr.id < 7
              /\ waits' = Append(waits, delay) )]_vars

\* C10 witness: six waits happened, with a jitter in the second, and the
\* seventh attempt's error was thrown.
C10_Witness ==
    /\ rpc = "thrown"
    /\ Len(waits) = 6
    /\ waits[2] > 2 * waits[1]
    /\ calls = 7

\* C11: after an attempt failed with an error that matches neither a quota
\* pattern nor a retriable pattern, the next step throws that same error,
\* whatever the attempt number: no further call and no wait follow, so the
\* error is thrown right after the call that raised it.
C11_OtherErrorThrownAtOnce ==
    /\ [](( /\ rpc = "thrown"
            /\ ~IsQuotaError(thrown)
            /\ ~IsRetriableError(thrown) ) =>
            (calls = thrown.id /\ Len(waits) = calls - 1))
    /\ [][( /\ rpc = "caught"
            /\ ~IsQuotaError(lastErr)
            /\ ~IsRetriableError(lastErr) ) =>
            ( /\ rpc' = "thrown"
              /\ thrown' = lastErr
              /\ calls' = calls
              /\ waits' = waits )]_vars

\* C11 witness: two retriable failures were waited for, the third attempt
\* failed with an error of no known pattern, and that error was thrown after
\* the third call.
C11_Witness ==
    /\ rpc = "thrown"
    /\ thrown.str = {}
    /\ thrown.id = 3
    /\ calls = 3
    /\ Len(waits) = 2

\* C12: when a file is selected while the store holds a session record with
\* both fields present, whatever its currentChunk in 0..numChunks (0
\* included), the record stays in the store and becomes resumableSession.
C12_StoredSessionOffered ==
    [][( /\ SelectFile
         /\ store.kind = "session"
         /\ store.currentChunk \in 0..NumChunks(numPages, CHUNK_SIZE) ) =>
         ( /\ store' = store
           /\ resumableSession' = store )]_vars

\* The kinds of entry that are no session: text that does not parse (the
\* empty string included), and parsed values lacking a field.
MalformedKinds == {"empty", "text", "json_null", "object"}

\* A run that started a fresh conversation at chunk 0: it does not resume,
\* its submissions are chunks 0, 1, 2, ..., the conversation holds nothing
\* before the first of them, and no malformed entry is left in the store.
FreshRun ==
    /\ ~shouldResume
    /\ resumeFromChunk = 0
    /\ \A k \in 1..Len(sent) : sent[k] = k - 1
    /\ sent = <<>> => (chat = <<>> /\ i = 0)
    /\ Len(chat) <= Len(sent) + 1
    /\ store.kind \notin MalformedKinds

\* C13 as stated: when a file is selected while the entry under its key does
\* not deserialize or lacks currentChunk or chatHistory, the entry is removed
\* and resumableSession becomes null.
C13_MalformedEntryRemoved ==
    [][( SelectFile /\ store.kind \in MalformedKinds ) =>
         ( store' = Absent /\ resumableSession' = Null )]_vars

\* C13 amended: a non-empty entry that does not deserialize or lacks a field
\* is removed when the file is selected and resumableSession becomes null; an
\* empty-string entry is read as no entry: resumableSession becomes null and
\* the entry stays until a run removes it; in both cases the runs that follow
\* start a fresh conversation at chunk 0.
C13_MalformedEntryDiscarded ==
    /\ [][( SelectFile /\ store.kind \in MalformedKinds \ {"empty"} ) =>
            ( /\ store' = Absent
              /\ resumableSession' = Null
              /\ discarded' = store.kind )]_vars
    /\ [][( SelectFile /\ store.kind = "empty" ) =>
            ( store' = store /\ resumableSession' = Null )]_vars
    /\ []( ( /\ InTryBody
             /\ (discarded \in MalformedKinds \/ startStore.kind = "empty") )
           => FreshRun )

\* C13 witness: an entry lacking a field was removed when the file was
\* selected, and the run that followed has submitted chunk 0 to a
\* conversation with no history.
C13_Witness ==
    /\ discarded = "object"
    /\ store.kind = "session"
    /\ pc = "retry"
    /\ caller = "chunk"
    /\ sent = <<0>>
    /\ chat = <<>>

\* The step after generateEpub resolved: finalize has returned markup, the
\* final turn is in the conversation, and the archive is kept.
PackagingDone ==
    /\ pc = "package"
    /\ generatedHtml = "html"
    /\ Len(chat) >= 1
    /\ chat[Len(chat)] = FinalMessage
    /\ pc' = "finally"
    /\ epubBlob'

\* C14 as stated: no entry exists after a successful run, and while a run is
\* going on a stored session is removed only by the step that follows
\* generateEpub's successful return, never before finalize and packaging.
C14_RemovedOnlyAfterPackaging ==
    /\ [](epubBlob => store = Absent)
    /\ [][( pc # "idle" /\ store.kind = "session" /\ store' = Absent ) =>
            PackagingDone]_vars

\* C14 amended: no entry exists after a successful run; once a run has made
\* its resume decision and set up its conversation, the entry is removed only
\* by the step that follows generateEpub's successful return, after finalize;
\* the other removals are the start of a run that does not resume (before any
\* chunk, also in a run that ends successfully), Start Over, and the selection
\* of a file whose entry is no valid session.
C14_SessionRemovals ==
    /\ [](epubBlob => store = Absent)
    /\ [][( InTryBody /\ store # Absent /\ store' = Absent ) =>
            PackagingDone]_vars
    /\ [][( store # Absent /\ store' = Absent ) =>
            \/ PackagingDone
            \/ (pc = "load" /\ ~shouldResume /\ pc' = "page")
            \/ (pc = "idle" /\ resumableSession # Null /\ forceNew' /\ pc' = "load")
            \/ (pc = "idle" /\ pc' = "idle" /\ file' = "doc"
                  /\ ~ValidSession(store) /\ resumableSession' = Null)]_vars

\* C14 witness: a run resumed from a stored session has ended successfully
\* and the entry is gone.
C14_Witness ==
    /\ pc = "finally"
    /\ epubBlob
    /\ shouldResume
    /\ startStore.kind = "session"
    /\ store = Absent

\* The stored session was written by the run going on: its history is a
\* prefix of the run's conversation and its index counts submissions of the
\* run.
StoredByThisRun ==
    store.kind = "session" =>
        /\ store.currentChunk <= Len(sent)
        /\ Len(store.chatHistory) <= Len(chat)
        /\ SubSeq(chat, 1, Len(store.chatHistory)) = store.chatHistory
        /\ Len(store.allImages) <= Len(allImages)
        /\ SubSeq(allImages, 1, Len(store.allImages)) = store.allImages

\* C15: Start Over removes the stored session at once and forces a new run;
\* a run that does not resume (no session, forceNew, or resume declined)
\* enters the chunk loop at index 0 with the entry removed, an empty
\* conversation and an empty image sequence, whatever was stored or held in
\* resumableSession; from there on the store holds only what this run wrote.
C15_FreshRunClearsSession ==
    /\ [][( pc = "idle" /\ pc' = "load" /\ forceNew' ) =>
            ( store' = Absent /\ ~shouldResume' )]_vars
    /\ [][( pc = "load" /\ pc' = "page" /\ ~shouldResume ) =>
            ( /\ store' = Absent
              /\ chat' = <<>>
              /\ allImages' = <<>>
              /\ resumeFromChunk' = 0
              /\ i' = 0
              /\ pageNum' = 1
              /\ sent' = <<>> )]_vars
    /\ []( ( InTryBody /\ ~shouldResume ) =>
             ( /\ resumeFromChunk = 0
               /\ \A k \in 1..Len(sent) : sent[k] = k - 1
               /\ store.kind \in {"absent", "session"}
               /\ StoredByThisRun ) )

\* C15 witness: with a session of two acknowledged chunks stored and held in
\* resumableSession, resume was declined, and the run has submitted chunk 0
\* to an empty conversation.
C15_Witness ==
    /\ declined
    /\ ~shouldResume
    /\ startStore.kind = "session"
    /\ startStore.currentChunk = 2
    /\ resumableSession = startStore
    /\ pc = "retry"
    /\ caller = "chunk"
    /\ rpc = "call"
    /\ sent = <<0>>
    /\ chat = <<>>
    /\ store.currentChunk = 0

\* Every chunk of the document is acknowledged in the conversation in use.
AllChunksAcked ==
    \A j \in 0..(NumChunks(numPages, CHUNK_SIZE) - 1) : ChunkAckedIn(chat, j)

\* finishEpubConversionChat is about to be called or running.
InFinalize == pc = "finish" \/ (pc = "retry" /\ caller = "final")

\* C16: finishEpubConversionChat is called only when every chunk index in
\* [0, numChunks) is acknowledged in the conversation in use; generateEpub is
\* called only when finishEpubConversionChat has returned markup, and at most
\* once per run: once it was called, the run makes no further call of either
\* and ends.
C16_FinalizeAfterAllChunksPackageOnce ==
    /\ []( (InFinalize \/ pc = "package") => AllChunksAcked )
    /\ []( pc = "package" =>
             ( /\ generatedHtml = "html"
               /\ Len(chat) >= 1
               /\ chat[Len(chat)] = FinalMessage ) )
    /\ [][( pc' = "package" /\ pc # "package" ) =>
            ( /\ pc = "retry"
              /\ caller = "final"
              /\ rpc = "returned"
              /\ response = "html" )]_vars
    /\ [][( pc \in {"package", "catch", "finally"} /\ pc' # pc ) =>
            pc' \in {"catch", "finally", "idle"}]_vars

\* C16 witness: a run resumed at chunk 1 of a two-chunk document submitted
\* chunk 1, finalize returned markup, and generateEpub is running.
C16_Witness ==
    /\ pc = "package"
    /\ shouldResume
    /\ resumeFromChunk = 1
    /\ NumChunks(numPages, CHUNK_SIZE) = 2
    /\ sent = <<1>>
    /\ AllChunksAcked

\* C17: when the final response parses but has no (or an empty) htmlContent,
\* the next step of the run is the throw of finishEpubConversionChat's error
\* into handleConvert's catch block: the retry loop is not entered again and
\* no sendMessage call follows before the run ends.
C17_MalformedFinalNotRetried ==
    /\ [][( /\ pc = "retry"
            /\ caller = "final"
            /\ rpc = "returned"
            /\ response = "no_field"
            /\ pc' # "idle" ) =>
            ( /\ pc' = "catch"
              /\ caught' = WrapFinishError(MissingFieldError)
              /\ caught'.isError
              /\ rpc' = "idle" )]_vars
    /\ []( pc \in {"catch", "finally"} => rpc = "idle" )

\* C17 witness: the error for the missing field, wrapped by
\* finishEpubConversionChat, is in handleConvert's catch block.
C17_Witness ==
    /\ pc = "catch"
    /\ caught = WrapFinishError(MissingFieldError)
    /\ caught.msg = {"did not contain 'htmlContent'"}
    /\ rpc = "idle"

\* C18: an error the service raised during finalize reaches the user in its
\* own category, as it does for a chunk submission: the error that lands in
\* handleConvert's catch block is classified like the one sendMessageWithRetry
\* threw (quota, rate limit, or transient), and the catch block shows that
\* category's message and offers Retry exactly for a transient error.
C18_FinalizeErrorKeepsCategory ==
    /\ [][( /\ pc = "retry"
            /\ rpc = "thrown"
            /\ pc' = "catch" ) =>
            ErrorKind(caught') = ErrorKind(thrown)]_vars
    /\ [][( pc = "catch" /\ pc' = "finally" ) =>
            ( /\ error'.kind = ErrorKind(caught)
              /\ isRetriableError' = (ErrorKind(caught) = "transient") )]_vars

\* The mimetype entry as the format requires it.
MimetypeEntry ==
    [name |-> <<"mimetype">>, dir |-> FALSE, content |-> "application/epub+zip",
     compression |-> "STORE"]

\* The files every archive holds besides mimetype.
RequiredFiles ==
    { <<"META-INF", "container.xml">>, <<"OEBPS", "style.css">>,
      <<"OEBPS", "toc.ncx">>, <<"OEBPS", "content.xhtml">>,
      <<"OEBPS", "content.opf">> }

\* C19: nothing is added to the archive before mimetype; once added, the
\* mimetype entry is the first entry, holds the literal 'application/epub+zip'
\* and has the STORE option, and every other entry (folders, container.xml,
\* images, style.css, toc.ncx, content.xhtml, content.opf) comes after it, in
\* the archive under construction and in the generated one.
C19_MimetypeFirstStored ==
    /\ epc \in {"parse", "mimetype"} => jszip = <<>>
    /\ epc \in {"container", "folders", "images", "toc", "content", "opf",
                "generate", "done"} =>
          /\ Len(jszip) >= 1
          /\ jszip[1] = MimetypeEntry
          /\ \A k \in 2..Len(jszip) : jszip[k].name # <<"mimetype">>
    /\ epc = "done" =>
          /\ Len(blob) = Len(jszip)
          /\ blob[1] = MimetypeEntry
          /\ \A k \in 1..Len(blob) : blob[k].name = jszip[k].name
          /\ \A f \in RequiredFiles : \E k \in 2..Len(blob) : blob[k].name = f
          /\ \A m \in 1..Len(imageManifestItems) :
                \E k \in 2..Len(blob) :
                    blob[k].name = <<"OEBPS">> \o imageManifestItems[m].href

\* C19 witness: an archive with two image files has been generated, with
\* mimetype first.
C19_Witness ==
    /\ epc = "done"
    /\ blob[1] = MimetypeEntry
    /\ Len(imageManifestItems) = 2
    /\ Len(blob) >= 10

\* A src of the form data:<media type>;<encoding>,<data> with data not empty.
WellFormedDataUri(src) ==
    /\ src.form = "data"
    /\ src.semi
    /\ Len(src.parts) >= 1
    /\ src.parts[1] # ""

\* The number of img elements with a well-formed data URI among the first n
\* of imgs.
WellFormedAmong(imgs, n) ==
    Cardinality({ j \in 1..n : WellFormedDataUri(imgs[j]) })

\* The number of img elements the image loop has gone through.
ImagesProcessed ==
    IF epc = "images" THEN imgIdx - 1
    ELSE IF epc \in {"toc", "content", "opf", "generate", "done"}
         THEN Len(htmlContent.imgs)
         ELSE 0

\* The positions in the archive of the files of the images folder.
ImageFiles ==
    { k \in 1..Len(jszip) :
        /\ ~jszip[k].dir
        /\ Len(jszip[k].name) = 3
        /\ SubSeq(jszip[k].name, 1, 2) = <<"OEBPS", "images">> }

\* C20: of the img elements the loop has gone through, each one whose src was
\* a well-formed data URI now has src images/image<k>.<ext>, k being the
\* number of such elements before it in document order and ext taken from its
\* media type; every other img keeps its src; the image files written, the
\* manifest items and the rewritten img elements are equally many; each
\* manifest href names exactly one written file and no two name the same;
\* the generated archive's content.opf carries these items and its
\* content.xhtml the rewritten elements.
C20_ImagesNumberedInOrder ==
    epc \notin {"idle", "parse"} =>
        LET orig == htmlContent.imgs
            n == ImagesProcessed
        IN  /\ Len(doc.imgs) = Len(orig)
            /\ \A k \in 1..Len(orig) :
                  doc.imgs[k] =
                     IF k <= n /\ WellFormedDataUri(orig[k])
                     THEN PathSrc(Filename(WellFormedAmong(orig, k - 1),
                                           Extension(orig[k].mime)))
                     ELSE orig[k]
            /\ imageCounter = WellFormedAmong(orig, n)
            /\ Len(imageManifestItems) = WellFormedAmong(orig, n)
            /\ Cardinality(ImageFiles) = WellFormedAmong(orig, n)
            /\ \A m \in 1..Len(imageManifestItems) :
                  /\ imageManifestItems[m].href[2].image = m - 1
                  /\ Cardinality({ k \in ImageFiles :
                        jszip[k].name = <<"OEBPS">> \o imageManifestItems[m].href })
                     = 1
                  /\ \E k \in 1..Len(orig) :
                        doc.imgs[k] = [form |-> "path",
                                       path |-> imageManifestItems[m].href]
            /\ epc = "done" =>
                  \E o, x \in 1..Len(blob) :
                      /\ blob[o].name = <<"OEBPS", "content.opf">>
                      /\ blob[o].content.manifest = imageManifestItems
                      /\ blob[x].name = <<"OEBPS", "content.xhtml">>
                      /\ blob[x].content.imgs = doc.imgs

\* C20 witness: of three img elements the first and the third had well-formed
\* data URIs and the second a data URI without data; the archive is generated
\* with image0 and image1 and the second element unchanged.
C20_Witness ==
    /\ epc = "done"
    /\ Len(htmlContent.imgs) = 3
    /\ htmlContent.imgs[1] = DataSrc(TRUE, Png, <<"AAAA">>)
    /\ htmlContent.imgs[2] = DataSrc(TRUE, Png, <<"">>)
    /\ htmlContent.imgs[3] = DataSrc(TRUE, <<"", "">>, <<"BBBB">>)
    /\ doc.imgs[1] = PathSrc(Filename(0, "png"))
    /\ doc.imgs[2] = htmlContent.imgs[2]
    /\ doc.imgs[3] = PathSrc(Filename(1, "jpeg"))
    /\ Cardinality(ImageFiles) = 2

\* The navPoints written to toc.ncx (none before the file is added).
TocNavPoints ==
    LET at == { k \in 1..Len(jszip) : jszip[k].name = <<"OEBPS", "toc.ncx">> }
    IN  IF at = {} THEN <<>> ELSE jszip[CHOOSE k \in at : TRUE].content.navPoints

\* C21: once toc.ncx is added it holds exactly one navPoint per
\* table-of-contents anchor of the markup, in list order: the navPoint at
\* 0-based position p has playOrder p + 1 and id navpoint-(p + 1) and carries
\* that anchor's text and href, so the playOrder values are 1..m without gap
\* or repeat.
C21_NavPointsInListOrder ==
    epc \in {"content", "opf", "generate", "done"} =>
        /\ HasEntry(jszip, <<"OEBPS", "toc.ncx">>)
        /\ Len(TocNavPoints) = Len(htmlContent.links)
        /\ \A k \in 1..Len(TocNavPoints) :
              /\ TocNavPoints[k].playOrder = k
              /\ TocNavPoints[k].id = k
              /\ TocNavPoints[k].text = htmlContent.links[k].text
              /\ TocNavPoints[k].src =
                    <<"content.xhtml",
                      IF htmlContent.links[k].hasHref
                      THEN htmlContent.links[k].href ELSE "">>
        /\ { TocNavPoints[k].playOrder : k \in 1..Len(TocNavPoints) }
              = 1..Len(htmlContent.links)

\* C21 witness: the archive is generated for a table of contents of two
\* different anchors, and toc.ncx holds their navPoints 1 and 2 in that order.
C21_Witness ==
    /\ epc = "done"
    /\ htmlContent.links = <<Link("", FALSE, ""), Link("Chapter", TRUE, "#s1")>>
    /\ Len(TocNavPoints) = 2
    /\ TocNavPoints[1].text = ""
    /\ TocNavPoints[2].playOrder = 2
    /\ TocNavPoints[2].src = <<"content.xhtml", "#s1">>

Range(seq) == { seq[k] : k \in 1..Len(seq) }

IsPrefix(a, b) == Len(a) <= Len(b) /\ SubSeq(b, 1, Len(a)) = a

Suffix(a, b) == SubSeq(b, Len(a) + 1, Len(b))

ImageTokensIn(text) == Cardinality({ k \in 1..Len(text) : text[k].t = "image" })

\* C22: a step of the page loop in which the extraction of an image threw
\* (console.warn reported it) neither aborts the page, the chunk nor the run:
\* the loop moves on to the next page or to the submission of the same chunk,
\* the page's text is kept in the chunk's text, the image that threw is not
\* among the images the step appended to the global sequence and to the
\* chunk's images, and the step inserted one placeholder per appended image
\* and none besides.
C22_ThrownImageSkipped ==
    [][ (pc = "page" /\ Len(warned') > Len(warned)) =>
            LET added == Suffix(allImages, allImages')
            IN  /\ IsPrefix(warned, warned')
                /\ pc' = (IF pageNum < EndPage(i, CHUNK_SIZE, numPages)
                          THEN "page" ELSE "save_before")
                /\ pageNum' = (IF pc' = "page" THEN pageNum + 1 ELSE pageNum)
                /\ i' = i
                /\ isLoading' /\ caught' = NoErr
                /\ IsPrefix(Append(chunkText, PageToken(pageNum)), chunkText')
                /\ IsPrefix(allImages, allImages')
                /\ IsPrefix(chunkImages, chunkImages')
                /\ Suffix(chunkImages, chunkImages') = added
                /\ Range(Suffix(warned, warned')) \cap Range(added) = {}
                /\ Len(chunkText') = Len(chunkText) + 1 + Len(added)
                /\ ImageTokensIn(chunkText') = ImageTokensIn(chunkText) + Len(added)
      ]_vars

\* The first image of page 1 threw; the second image of the page and the image
\* of page 2 followed it into the chunk, which the service acknowledged.
C22_Witness ==
    /\ pc = "retry" /\ rpc = "returned" /\ caller = "chunk"
    /\ warned = << <<1, 1>> >>
    /\ allImages = << <<1, 2>>, <<2, 1>> >>
    /\ chunkImages = allImages
    /\ chunkText = <<PageToken(1), ImageToken(0), PageToken(2), ImageToken(1)>>
    /\ sent = <<0>>

AlphaEntries == { 4 * q : q \in 1..(imgWidth * imgHeight) }

\* C23: for every width, height and pixel-buffer length the normalisation
\* raises no error, the buffer handed to putImageData has exactly 4wh
\* entries, and when the pixel buffer has 3wh or wh entries every alpha entry
\* of it is 255.
C23_NormalizedToRgba ==
    /\ npc # "error"
    /\ npc \in {"put", "done"} =>
          /\ Len(imageData) = 4 * imgWidth * imgHeight
          /\ Len(imgData) \in {3 * imgWidth * imgHeight, imgWidth * imgHeight} =>
                \A a \in AlphaEntries : imageData[a] = 255

\* A 2 x 2 image whose pixel buffer is longer than 4wh came out as 16 entries.
C23_Witness ==
    /\ npc = "done"
    /\ imgWidth = 2 /\ imgHeight = 2
    /\ Len(imgData) = 17
    /\ Len(imageData) = 16
    /\ \A a \in AlphaEntries : imageData[a] = 255

\* C24: handleConvert is in progress exactly while isLoading is true; every
\* step that starts a run (Convert / Resume, Retry, Start Over) and every file
\* selection is taken with isLoading false and no run in progress; and
\* isLoading falls only in the finally block of the run, or when the page is
\* reloaded and the run abandoned with it.
C24_OneRunAtATime ==
    /\ [](isLoading <=> pc # "idle")
    /\ [][ /\ (Convert \/ StartOver \/ SelectFile) => (~isLoading /\ pc = "idle")
           /\ (pc' = "load") => (pc = "idle" /\ ~isLoading /\ isLoading')
           /\ (isLoading /\ ~isLoading') => (pc' = "idle" /\ (pc = "finally" \/ file' = "none"))
       ]_vars

\* A run started by Retry after a failed run is at the submission of a chunk.
C24_Witness ==
    /\ isLoading
    /\ afterFailure
    /\ pc = "retry"
    /\ caller = "chunk"
    /\ rpc = "call"

\* C25: if from some point on the service rejects no call and returns a
\* well-formed book and the page is not reloaded, while the user starts
\* another run by Convert / Resume or Retry after every run that failed or was
\* interrupted, then a run ends with an archive; and no run enters the chunk
\* loop at an index below the one the run before it entered at.
C25_ForwardProgress ==
    /\ (<>[][~(ServiceFails \/ Reload)]_vars) => <>epubBlob
    /\ [][ (pc = "load" /\ pc' \in {"page", "finish"}) => resumeFromChunk' >= prevStart ]_vars

\* A run resumed at chunk 1 after a run that had started at chunk 0 ended
\* with the archive.
C25_Witness ==
    /\ epubBlob
    /\ resumeFromChunk = 1
    /\ prevStart = 0
    /\ pc = "finally"

\* The placeholder tokens of a text, in order.
ImageTokensOf(text) == SelectSeq(text, LAMBDA tok : tok.t = "image")

\* Every placeholder of text, taken in order, holds the index in all of the
\* image at the same position of images.
TokensPointAt(text, images, all) ==
    LET toks == ImageTokensOf(text)
    IN  /\ Len(toks) = Len(images)
        /\ \A m \in 1..Len(toks) :
              /\ toks[m].n + 1 \in 1..Len(all)
              /\ all[toks[m].n + 1] = images[m]

\* C26: a step of the page loop that appends images to the global sequence
\* appends the same images to the chunk's images and inserts, in order, the
\* placeholders numbered with the indices those images got; the sequence only
\* grows while a run goes on, so in the chunk being built and, at
\* finalization, in every chunk of the conversation each placeholder still
\* holds the index of its image; and a resumed run starts from the image
\* sequence of the session it resumes, so its first new placeholder is
\* numbered with that sequence's length.
C26_PlaceholderIndexesImage ==
    /\ [](/\ TokensPointAt(chunkText, chunkImages, allImages)
          /\ \A m \in 1..Len(chunkImages) :
                ImageTokensOf(chunkText)[m].n = Len(allImages) - Len(chunkImages) + m - 1
          /\ InFinalize =>
                \A c \in 1..Len(chat) :
                    chat[c].type = "chunk" =>
                        TokensPointAt(chat[c].text, chat[c].images, allImages))
    /\ [][ /\ (pc = "page" /\ Len(allImages') > Len(allImages)) =>
                /\ Suffix(chunkImages, chunkImages') = Suffix(allImages, allImages')
                /\ ImageTokensOf(Suffix(chunkText, chunkText')) =
                      [m \in 1..(Len(allImages') - Len(allImages)) |->
                          ImageToken(Len(allImages) + m - 1)]
           /\ (pc \notin {"idle", "load"} /\ pc' \notin {"idle", "catch"}) =>
                IsPrefix(allImages, allImages')
           /\ (pc = "load" /\ pc' \in {"page", "finish"} /\ shouldResume
               /\ resumableSession # Null) =>
                allImages' = resumableSession.allImages
       ]_vars

\* A run resumed from a session holding one image numbered its first new
\* image 1 and has reached finalization.
C26_Witness ==
    /\ pc = "retry" /\ caller = "final"
    /\ shouldResume
    /\ resumeFromChunk = 1
    /\ startStore.kind = "session"
    /\ Len(startStore.allImages) = 1
    /\ Len(allImages) = 2
    /\ ImageTokensOf(chat[Len(chat)].text) = <<ImageToken(1)>>

NoDuplicates(seq) == \A a, b \in 1..Len(seq) : seq[a] = seq[b] => a = b

\* C27: a stored session with currentChunk = n holds only images of the pages
\* of chunks [0, n), each once, and no image of the document occurs twice in
\* the image sequence a run accumulates.
C27_SessionHoldsDoneChunks ==
    /\ store.kind = "session" =>
          /\ NoDuplicates(store.allImages)
          /\ \A im \in Range(store.allImages) :
                im[1] < StartPage(store.currentChunk, CHUNK_SIZE)
    /\ NoDuplicates(allImages)

\* A run resumed at chunk 1 from the snapshot taken before chunk 1 was sent
\* holds an image of page 6 twice.
DuplicateAfterResume ==
    /\ shouldResume
    /\ resumeFromChunk = 1
    /\ pc = "save_before"
    /\ ~NoDuplicates(allImages)

\* C28: whenever a run can be started (isLoading is false and a file is
\* selected), resumableSession is non-null exactly when the store holds an
\* entry that passes the test made at selection, and then it has that entry's
\* currentChunk, chatHistory and allImages.
C28_SessionAgreesWithStore ==
    (~isLoading /\ file # "none") =>
        /\ (resumableSession # Null) <=> ValidSession(store)
        /\ (resumableSession # Null /\ store.kind = "session") =>
              /\ resumableSession.currentChunk = store.currentChunk
              /\ resumableSession.chatHistory = store.chatHistory
              /\ resumableSession.allImages = store.allImages

====
